---- MODULE Spec2Model ----
(***************************************************************************)
(* The building sizer: a driver loop that repeatedly hands a               *)
(* BuildingSizerRequest to the controller (main / main_without_utsp),      *)
(* which either creates the first random generation or rates the pending   *)
(* HiSim configurations, selects, evolves and submits the next generation. *)
(* Three execution backends share the controller logic:                    *)
(*   "utsp"  - building_sizer_algorithm.py        (requests sent to UTSP)  *)
(*   "local" - building_sizer/..._no_utsp.py      (HiSim run in process)   *)
(*   "slurm" - building_sizer_execution/..._no_utsp.py (one job per config *)
(*             writing into a shared result_dict.json)                     *)
(* Probabilities are in percent, shares of PV potential in percent, so     *)
(* that every value is an integer.                                         *)
(***************************************************************************)
EXTENDS Integers, Sequences, FiniteSets, TLC

\* ------------------------------------------------------------------------
\* Bounds of the model
\* ------------------------------------------------------------------------
\* initial requests carry remaining_iterations in 0..MaxIterations, and
\* MaxIterations + 1 with a population of one
MaxIterations == 2
\* the run is followed while remaining_iterations >= -MaxOverrun
MaxOverrun == 1
\* the population sizes of the initial requests
PopulationSizes == {1, 2}
\* the lists handed to a function of the library called on its own have up
\* to MaxList elements
MaxList == 3

\* ------------------------------------------------------------------------
\* Generic helpers
\* ------------------------------------------------------------------------
Range(s) == {s[i] : i \in DOMAIN s}

\* Python's s[:n]
Take(s, n) == SubSeq(s, 1, IF n < Len(s) THEN n ELSE Len(s))

\* Python's s[n:]
Drop(s, n) == IF n >= Len(s) THEN <<>> ELSE SubSeq(s, n + 1, Len(s))

\* random.shuffle: all orderings of the elements of a list
Shuffles(s) ==
    LET n == Len(s)
        perms == {p \in [1..n -> 1..n] : \A i, j \in 1..n : i # j => p[i] # p[j]}
    IN  {[i \in 1..n |-> s[p[i]]] : p \in perms}

\* the outcomes of random.random(), sampled from [0, 1), in percent
UnitDraws == {0, 25, 50, 90}

\* ------------------------------------------------------------------------
\* individual_encoding_no_utsp.py / individual_encoding.py
\* ------------------------------------------------------------------------
HEAT_PUMP == 1
GAS_HEATING == 2

\* SizingOptions of the no-UTSP variants: discrete attributes only.  Two of
\* the three discrete attributes, each with two of its allowed values.
SizingOptionsNoUtsp ==
    [ members |-> [ share_of_maximum_pv_potential |-> <<0, 100>>,
                    space_heating_system |-> <<HEAT_PUMP, GAS_HEATING>> ],
      bool_attributes |-> <<>>,
      discrete_attributes |-> <<"share_of_maximum_pv_potential", "space_heating_system">>,
      probabilities |-> <<>> ]

\* SizingOptions of the UTSP variant: bool attributes with probabilities.
\* One of the two discrete attributes, with two of its allowed values.
SizingOptionsUtsp ==
    [ members |-> [ pv_peak_power |-> <<600, 1200>> ],
      bool_attributes |-> <<"pv_included", "battery_included">>,
      discrete_attributes |-> <<"pv_peak_power">>,
      probabilities |-> <<80, 40>> ]

\* SizingOptions.__post_init__: TRUE when the construction raises.  The UTSP
\* module checks every attribute name against SystemConfig and every discrete
\* attribute against the members of the schema; without UTSP the method is
\* commented out.
post_init(options, utsp, config_type) ==
    /\ utsp
    /\ \/ \E name \in Range(options.bool_attributes) \cup Range(options.discrete_attributes) :
             name \notin DOMAIN config_type
       \/ \E name \in Range(options.discrete_attributes) :
             name \notin DOMAIN options.members

\* EnergySystemConfig(): the default configuration object (no-UTSP variants)
EnergySystemConfig ==
    [ share_of_maximum_pv_potential |-> 100,
      space_heating_system |-> HEAT_PUMP,
      domestic_hot_water_heating_system |-> HEAT_PUMP ]

\* SystemConfig(): the default configuration object (UTSP variant)
SystemConfig ==
    [ pv_included |-> TRUE,
      pv_peak_power |-> 600,
      battery_included |-> FALSE,
      battery_capacity |-> 5 ]

\* getattr(options, name): the list of allowed values of a discrete attribute
AllowedValues(options, name) == options.members[name]

\* dataclass Individual
Individual(bool_vector, discrete_vector) ==
    [bool_vector |-> bool_vector, discrete_vector |-> discrete_vector]

\* dataclass RatedIndividual
RatedIndividual(individual, rating) == [individual |-> individual, rating |-> rating]

\* all vectors whose i-th component is drawn from the i-th attribute's list
DiscreteVectors(options) ==
    LET n == Len(options.discrete_attributes)
    IN  {v \in [1..n -> UNION {Range(AllowedValues(options, options.discrete_attributes[i])) : i \in 1..n}] :
            \A i \in 1..n : v[i] \in Range(AllowedValues(options, options.discrete_attributes[i]))}

\* Bernoulli outcomes of "dice < probability" for dice in [0, 1)
BoolVectors(options) ==
    LET n == Len(options.probabilities)
    IN  {v \in [1..n -> BOOLEAN] :
            \A i \in 1..n : \E dice \in UnitDraws : v[i] = (dice < options.probabilities[i])}

\* Individual.create_random_individual: the set of possible results
create_random_individual(options) ==
    {Individual(b, d) : b \in BoolVectors(options), d \in DiscreteVectors(options)}

\* the state of Individual.create_random_individual when it returns or
\* raises (err): the number of random draws made and the individual as far as
\* it is filled.  The assert on the probabilities comes first, then one draw
\* per probability, then one random.choice per discrete attribute; getattr
\* raises on a missing list and random.choice on an empty one.
create_random_individual_trace(options) ==
    IF Len(options.probabilities) # Len(options.bool_attributes)
    THEN {[err |-> TRUE, draws |-> 0, individual |-> Individual(<<>>, <<>>)]}
    ELSE LET names == options.discrete_attributes
             bad == {j \in 1..Len(names) :
                        \/ names[j] \notin DOMAIN options.members
                        \/ options.members[names[j]] = <<>>}
             stop == IF bad = {} THEN Len(names)
                     ELSE (CHOOSE j \in bad : \A k \in bad : j <= k) - 1
             drawn == [discrete_attributes |-> Take(names, stop),
                       members |-> options.members]
         IN  {[err |-> bad # {}, draws |-> Len(options.probabilities) + stop,
               individual |-> Individual(b, d)] :
              b \in BoolVectors(options), d \in DiscreteVectors(drawn)}

\* mutation of create_individual_from_config: the attributes are read in the
\* reverse of the schema order
create_individual_from_config_reversed(system_config, options) ==
    LET nb == Len(options.bool_attributes)
        nd == Len(options.discrete_attributes)
    IN  Individual(
            [i \in 1..nb |-> system_config[options.bool_attributes[nb + 1 - i]]],
            [i \in 1..nd |-> system_config[options.discrete_attributes[nd + 1 - i]]])

\* create_individual_from_config: read the schema attributes off the config
create_individual_from_config(system_config, options) ==
    Individual(
        [i \in 1..Len(options.bool_attributes) |-> system_config[options.bool_attributes[i]]],
        [i \in 1..Len(options.discrete_attributes) |-> system_config[options.discrete_attributes[i]]])

RECURSIVE SetAttrs(_, _, _, _)
\* setattr(system_config, names[i], vector[i]) for i = from..Len(names)
SetAttrs(system_config, names, vector, from) ==
    IF from > Len(names) THEN system_config
    ELSE SetAttrs([system_config EXCEPT ![names[from]] = vector[from]], names, vector, from + 1)

\* mutation of create_config_from_individual_trace: both lengths are checked
\* before the first setattr
create_config_from_individual_checked_first(individual, options, default_config) ==
    IF \/ Len(options.bool_attributes) # Len(individual.bool_vector)
       \/ Len(options.discrete_attributes) # Len(individual.discrete_vector)
    THEN [err |-> TRUE, system_config |-> default_config, written |-> 0]
    ELSE [err |-> FALSE,
          system_config |->
              SetAttrs(SetAttrs(default_config, options.bool_attributes, individual.bool_vector, 1),
                       options.discrete_attributes, individual.discrete_vector, 1),
          written |-> Len(options.bool_attributes) + Len(options.discrete_attributes)]

\* the state of create_config_from_individual when it returns or raises
\* (err): the local system_config and the number of setattr calls made on it
create_config_from_individual_trace(individual, options, default_config) ==
    IF Len(options.bool_attributes) # Len(individual.bool_vector)
    THEN [err |-> TRUE, system_config |-> default_config, written |-> 0]
    ELSE LET with_bools == SetAttrs(default_config, options.bool_attributes,
                                    individual.bool_vector, 1)
         IN  IF Len(options.discrete_attributes) # Len(individual.discrete_vector)
             THEN [err |-> TRUE, system_config |-> with_bools,
                   written |-> Len(options.bool_attributes)]
             ELSE [err |-> FALSE,
                   system_config |-> SetAttrs(with_bools, options.discrete_attributes,
                                              individual.discrete_vector, 1),
                   written |-> Len(options.bool_attributes) + Len(options.discrete_attributes)]

\* create_config_from_individual; <<>> stands for the AssertionError
create_config_from_individual(individual, options, default_config) ==
    IF Len(options.bool_attributes) # Len(individual.bool_vector) THEN <<>>
    ELSE IF Len(options.discrete_attributes) # Len(individual.discrete_vector) THEN <<>>
    ELSE <<SetAttrs(SetAttrs(default_config, options.bool_attributes, individual.bool_vector, 1),
                    options.discrete_attributes, individual.discrete_vector, 1)>>

\* mutation of create_random_system_configs: duplicates among the random
\* configs are dropped
create_random_system_configs_deduplicated(number, options, default_config) ==
    LET RECURSIVE FirstOccurrences(_, _)
        FirstOccurrences(list, seen) ==
            IF list = <<>> THEN <<>>
            ELSE IF Head(list) \in seen THEN FirstOccurrences(Tail(list), seen)
            ELSE <<Head(list)>> \o FirstOccurrences(Tail(list), seen \cup {Head(list)})
    IN  {FirstOccurrences(
             [i \in 1..number |-> create_config_from_individual(inds[i], options, default_config)[1]],
             {}) :
         inds \in [1..number -> create_random_individual(options)]}

\* create_random_system_configs: all lists of `number` random configs
create_random_system_configs(number, options, default_config) ==
    {[i \in 1..number |-> create_config_from_individual(inds[i], options, default_config)[1]] :
        inds \in [1..number -> create_random_individual(options)]}

\* ------------------------------------------------------------------------
\* evolutionary_algorithm.py / evolutionary_algorithm_no_utsp.py
\* The two modules differ in crossover_conventional and in the mutation
\* modes; `utsp` tells which module is meant.  A random function is the set
\* of its possible results; a result with err = TRUE is a raised exception.
\* ------------------------------------------------------------------------

\* mutation of DeleteIndex: the search stops at the first duplicate
DeleteIndex_first_only(individuals) ==
    LET duplicates == {j \in 1..Len(individuals) :
                          \E i \in 1..(j - 1) : individuals[i] = individuals[j]}
    IN  IF duplicates = {} THEN {}
        ELSE {CHOOSE j \in duplicates : \A k \in duplicates : j <= k}

\* indices j > i with individuals[i] == individuals[j], as unique collects them
DeleteIndex(individuals) ==
    {j \in 1..Len(individuals) : \E i \in 1..(j - 1) : individuals[i] = individuals[j]}

RECURSIVE Filter(_, _, _)
\* the elements at the indices from..Len that are not in delete_index
Filter(individuals, delete_index, from) ==
    IF from > Len(individuals) THEN <<>>
    ELSE (IF from \in delete_index THEN <<>> ELSE <<individuals[from]>>)
         \o Filter(individuals, delete_index, from + 1)

\* mutation of unique: of equal individuals the last one is kept
unique_keeping_last(individuals) ==
    Filter(individuals,
           {i \in 1..Len(individuals) :
               \E j \in (i + 1)..Len(individuals) : individuals[i] = individuals[j]},
           1)

\* unique: compares all individuals and deletes duplicates
unique(individuals) == Filter(individuals, DeleteIndex(individuals), 1)

RECURSIVE InsertDescending(_, _)
\* insert ri behind every element whose rating is >= ri.rating (stable)
InsertDescending(sorted, ri) ==
    IF sorted = <<>> THEN <<ri>>
    ELSE IF Head(sorted).rating >= ri.rating
         THEN <<Head(sorted)>> \o InsertDescending(Tail(sorted), ri)
         ELSE <<ri>> \o sorted

RECURSIVE SortedByRating(_, _)
\* sorted(rated_individuals, key=rating, reverse=True) of the first n elements
SortedByRating(rated_individuals, n) ==
    IF n = 0 THEN <<>>
    ELSE InsertDescending(SortedByRating(rated_individuals, n - 1), rated_individuals[n])

\* mutation of selection: every rated individual is kept
selection_of_all(rated_individuals, population_size) ==
    Shuffles(SortedByRating(rated_individuals, Len(rated_individuals)))

\* mutation of selection: the best are taken without sorting
selection_unsorted(rated_individuals, population_size) ==
    Shuffles(Take(rated_individuals, population_size))

\* selection: sort descending, keep the best population_size, shuffle
selection(rated_individuals, population_size) ==
    Shuffles(Take(SortedByRating(rated_individuals, Len(rated_individuals)), population_size))

\* mutation of crossover_conventional_no_utsp: the discrete vectors are
\* exchanged behind a cut
crossover_conventional_no_utsp_exchanging(parent1, parent2) ==
    {[err |-> FALSE,
      child1 |-> Individual(<<>>, Take(parent1.discrete_vector, pt)
                                     \o Drop(parent2.discrete_vector, pt)),
      child2 |-> Individual(<<>>, Take(parent2.discrete_vector, pt)
                                     \o Drop(parent1.discrete_vector, pt))] :
     pt \in 0..Len(parent1.discrete_vector)}

\* crossover_conventional of the module without UTSP: the children carry
\* copies of the parents' discrete vectors
crossover_conventional_no_utsp(parent1, parent2) ==
    {[err |-> FALSE,
      child1 |-> Individual(<<>>, parent1.discrete_vector),
      child2 |-> Individual(<<>>, parent2.discrete_vector)]}

\* mutation of DiscreteCut: the discrete vectors are never cut
DiscreteCut_never(crossover_pt, vector_discrete) == FALSE

\* `if crossover_pt < len(vector_discrete_1)` of crossover_conventional
DiscreteCut(crossover_pt, vector_discrete) == crossover_pt < Len(vector_discrete)

\* mutation of crossover_conventional: only the first child is crossed
crossover_conventional_one_child(parent1, parent2, utsp) ==
    IF ~utsp
    THEN {[err |-> FALSE,
           child1 |-> Individual(<<>>, parent1.discrete_vector),
           child2 |-> Individual(<<>>, parent1.discrete_vector)]}
    ELSE IF Len(parent1.bool_vector) < Len(parent1.discrete_vector)
              \/ Len(parent1.bool_vector) < 2
         THEN {[err |-> TRUE, child1 |-> parent1, child2 |-> parent2]}
         ELSE {[err |-> FALSE,
                child1 |-> Individual(
                    Take(parent1.bool_vector, pt) \o Drop(parent2.bool_vector, pt),
                    IF pt < Len(parent1.discrete_vector)
                    THEN Take(parent1.discrete_vector, pt) \o Drop(parent2.discrete_vector, pt)
                    ELSE parent1.discrete_vector),
                child2 |-> parent2] :
               pt \in 1..(Len(parent1.bool_vector) - 1)}

\* crossover_conventional of either module
crossover_conventional(parent1, parent2, utsp) ==
    IF ~utsp
    THEN crossover_conventional_no_utsp(parent1, parent2)
    ELSE IF Len(parent1.bool_vector) < Len(parent1.discrete_vector)
              \/ Len(parent1.bool_vector) < 2
         THEN {[err |-> TRUE, child1 |-> parent1, child2 |-> parent2]}
         ELSE {[err |-> FALSE,
                child1 |-> Individual(
                    Take(parent1.bool_vector, pt) \o Drop(parent2.bool_vector, pt),
                    IF DiscreteCut(pt, parent1.discrete_vector)
                    THEN Take(parent1.discrete_vector, pt) \o Drop(parent2.discrete_vector, pt)
                    ELSE parent1.discrete_vector),
                child2 |-> Individual(
                    Take(parent2.bool_vector, pt) \o Drop(parent1.bool_vector, pt),
                    IF DiscreteCut(pt, parent1.discrete_vector)
                    THEN Take(parent2.discrete_vector, pt) \o Drop(parent1.discrete_vector, pt)
                    ELSE parent2.discrete_vector)] :
               pt \in 1..(Len(parent1.bool_vector) - 1)}

\* mutation_bool: flip one randomly chosen bit of the bool vector
mutation_bool(parent) ==
    IF Len(parent.bool_vector) = 0 THEN {[err |-> TRUE, child |-> parent]}
    ELSE {[err |-> FALSE,
           child |-> Individual([parent.bool_vector EXCEPT ![bit] = ~parent.bool_vector[bit]],
                                parent.discrete_vector)] :
          bit \in 1..Len(parent.bool_vector)}

\* mutation of mutation_discrete: the value is drawn from the list of the
\* attribute after the chosen one
mutation_discrete_other_list(parent, options) ==
    LET n == Len(options.discrete_attributes)
    IN  IF Len(parent.discrete_vector) = 0 \/ n = 0 THEN {[err |-> TRUE, child |-> parent]}
        ELSE UNION {
               {[err |-> FALSE,
                 child |-> Individual(parent.bool_vector,
                                      [parent.discrete_vector EXCEPT ![bit] = value])] :
                value \in Range(AllowedValues(options, options.discrete_attributes[(bit % n) + 1]))} :
               bit \in 1..Len(parent.discrete_vector)}

\* mutation_discrete: redraw one randomly chosen discrete gene from its list
mutation_discrete(parent, options) ==
    IF Len(parent.discrete_vector) = 0 THEN {[err |-> TRUE, child |-> parent]}
    ELSE UNION {
           IF bit > Len(options.discrete_attributes)
              \/ AllowedValues(options, options.discrete_attributes[bit]) = <<>>
           THEN {[err |-> TRUE, child |-> parent]}
           ELSE {[err |-> FALSE,
                  child |-> Individual(parent.bool_vector,
                                       [parent.discrete_vector EXCEPT ![bit] = value])] :
                 value \in Range(AllowedValues(options, options.discrete_attributes[bit]))} :
           bit \in 1..Len(parent.discrete_vector)}

\* the mutation the mode selects in either module
Mutation(parent, mode, options, utsp) ==
    IF mode = "discrete" THEN mutation_discrete(parent, options)
    ELSE IF utsp /\ mode = "bool" THEN mutation_bool(parent)
    ELSE {[err |-> TRUE, child |-> parent]}

\* mutation of AfterCrossover: the cursor moves on by one
AfterCrossover_by_one(pop) == pop + 1

\* `pop = pop + 2` after a crossover in evolution
AfterCrossover(pop) == pop + 2

RECURSIVE EvolutionLoop(_, _, _, _, _, _, _, _, _)
\* the while loop of evolution from cursor pop with the children made so far
EvolutionLoop(parents, sel, pop, children, r_cross, r_mut, mode, options, utsp) ==
    LET len_parents == Len(parents)
        parent1 == parents[((sel + pop) % len_parents) + 1]
        parent2 == parents[((sel + pop + 1) % len_parents) + 1]
        Failed == {[err |-> TRUE, children |-> children]}
    IN  IF ~(pop < len_parents) THEN {[err |-> FALSE, children |-> children]}
        ELSE UNION {
               IF o < r_cross
               THEN UNION {
                      IF c.err THEN Failed
                      ELSE EvolutionLoop(parents, sel, AfterCrossover(pop),
                                         children \o <<c.child1, c.child2>>,
                                         r_cross, r_mut, mode, options, utsp) :
                      c \in crossover_conventional(parent1, parent2, utsp)}
               ELSE IF o < r_cross + r_mut
               THEN UNION {
                      IF m.err THEN Failed
                      ELSE EvolutionLoop(parents, sel, pop + 1, children \o <<m.child>>,
                                         r_cross, r_mut, mode, options, utsp) :
                      m \in Mutation(parent1, mode, options, utsp)}
               ELSE EvolutionLoop(parents, sel, pop + 1, children,
                                  r_cross, r_mut, mode, options, utsp) :
               o \in UnitDraws}

\* evolution: one step of the evolutionary algorithm without the selection
evolution(parents, r_cross, r_mut, mode, options, utsp) ==
    IF Len(parents) = 0 THEN {[err |-> TRUE, children |-> <<>>]}
    ELSE UNION {EvolutionLoop(parents, sel, 0, <<>>, r_cross, r_mut, mode, options, utsp) :
                sel \in 0..(Len(parents) - 1)}

\* ------------------------------------------------------------------------
\* building_sizer_algorithm.py / building_sizer_algorithm_no_utsp.py
\* ------------------------------------------------------------------------
\* KPIForRatingInOptimization.TOTAL_COSTS, the default kpi_for_rating
TOTAL_COSTS == 1

\* the archetype the driver passes; it is never changed by the controller
ArcheTypeConfig == 0

\* position of a value in a list of allowed values (0 when it is absent)
IndexOf(list, value) ==
    IF \E i \in 1..Len(list) : list[i] = value
    THEN CHOOSE i \in 1..Len(list) : list[i] = value
    ELSE 0

\* ModularHouseholdConfig(system_config, archetype).get_hash() and .to_json():
\* a number that tells the configs of one schema apart
ConfigCode(system_config, options) ==
    LET nb == Len(options.bool_attributes)
        names == options.bool_attributes \o options.discrete_attributes
        Radix(i) == IF i <= nb THEN 2 ELSE Len(AllowedValues(options, names[i])) + 1
        Digit(i) == IF i <= nb THEN (IF system_config[names[i]] THEN 1 ELSE 0)
                    ELSE IndexOf(AllowedValues(options, names[i]), system_config[names[i]])
        RECURSIVE Code(_)
        Code(i) == IF i > Len(names) THEN 0 ELSE Digit(i) + Radix(i) * Code(i + 1)
    IN  Code(1)

\* the default configuration object of a backend
DefaultConfig(utsp) == IF utsp THEN SystemConfig ELSE EnergySystemConfig

\* every configuration an individual of the schema decodes to
AllConfigs(options, utsp) ==
    {create_config_from_individual(i, options, DefaultConfig(utsp))[1] :
        i \in {Individual(b, d) : b \in [1..Len(options.bool_attributes) -> BOOLEAN],
                                  d \in DiscreteVectors(options)}}

\* ModularHouseholdConfig.from_json(sim_config_str).system_config_
from_json(sim_config_str, options) ==
    CHOOSE c \in AllConfigs(options, TRUE) : ConfigCode(c, options) = sim_config_str

\* dataclass BuildingSizerRequest; `requisite` is requisite_requests (UTSP) or
\* requisite_hisim_config_paths (no UTSP)
BuildingSizerRequest(remaining_iterations, boolean_iterations, discrete_iterations, population_size, crossover_probability, mutation_probability, options, kpi_for_rating, archetype_config_, requisite) ==
    [ remaining_iterations |-> remaining_iterations,
      boolean_iterations |-> boolean_iterations,
      discrete_iterations |-> discrete_iterations,
      population_size |-> population_size,
      crossover_probability |-> crossover_probability,
      mutation_probability |-> mutation_probability,
      options |-> options,
      kpi_for_rating |-> kpi_for_rating,
      archetype_config_ |-> archetype_config_,
      requisite |-> requisite ]

\* mutation of create_subsequent_request: the handles are not handed on
create_subsequent_request_without_handles(self, hisim_config_paths) ==
    [self EXCEPT !.remaining_iterations = self.remaining_iterations - 1,
                 !.requisite = <<>>]

\* mutation of create_subsequent_request: the budget is not counted down
create_subsequent_request_keeping_budget(self, hisim_config_paths) ==
    [self EXCEPT !.requisite = hisim_config_paths]

\* BuildingSizerRequest.create_subsequent_request
create_subsequent_request(self, hisim_config_paths) ==
    [self EXCEPT !.remaining_iterations = self.remaining_iterations - 1,
                 !.requisite = hisim_config_paths]

\* dataclass BuildingSizerResult; an absent subsequent request is <<>>
BuildingSizerResult(finished, subsequent_building_sizer_request, result) ==
    [ finished |-> finished,
      subsequent_building_sizer_request |-> subsequent_building_sizer_request,
      result |-> result ]

\* mutation of CreateResult: finished tells that a request follows
CreateResult_inverted(next_building_sizer_request, message) ==
    BuildingSizerResult(next_building_sizer_request # <<>>, next_building_sizer_request, message)

\* the end of main / main_without_utsp: the result record written to
\* status.json, finished telling whether a further iteration was triggered
CreateResult(next_building_sizer_request, message) ==
    BuildingSizerResult(next_building_sizer_request = <<>>, next_building_sizer_request, message)

\* json.dumps of a list of numbers: its length, then its elements
DumpList(list) == <<Len(list)>> \o list

\* SizingOptions.to_dict(), dumped
DumpOptions(options) ==
    LET RECURSIVE Catalogs(_)
        Catalogs(i) ==
            IF i > Len(options.discrete_attributes) THEN <<>>
            ELSE DumpList(AllowedValues(options, options.discrete_attributes[i]))
                 \o Catalogs(i + 1)
    IN  <<Len(options.bool_attributes), Len(options.discrete_attributes)>>
        \o Catalogs(1) \o DumpList(options.probabilities)

\* mutation of DumpRequest: the pending handles are left out of the dump
DumpRequest_without_handles(request, backend, kpi_slot, archetype_slot, requisite_slot) ==
    (IF backend = "utsp" THEN <<request.remaining_iterations, request.boolean_iterations>>
     ELSE <<request.remaining_iterations>>)
    \o <<request.discrete_iterations, request.population_size,
          request.crossover_probability, request.mutation_probability>>
    \o DumpOptions(request.options)
    \o (IF backend = "slurm" THEN kpi_slot ELSE <<>>)
    \o archetype_slot

\* json.dumps(request.to_dict()): the fields in their declaration order; the
\* last three arguments are what stands in the slots kpi_for_rating,
\* archetype_config_ and requisite, already dumped
DumpRequest(request, backend, kpi_slot, archetype_slot, requisite_slot) ==
    (IF backend = "utsp" THEN <<request.remaining_iterations, request.boolean_iterations>>
     ELSE <<request.remaining_iterations>>)
    \o <<request.discrete_iterations, request.population_size,
          request.crossover_probability, request.mutation_probability>>
    \o DumpOptions(request.options)
    \o (IF backend = "slurm" THEN kpi_slot ELSE <<>>)
    \o archetype_slot
    \o requisite_slot

\* hash(config_str): a function of the characters of the string; an
\* injective stand-in, since the few strings of one run do not collide
hash(config_str) == <<Len(config_str)>> \o config_str

\* BuildingSizerRequest.get_hash (no UTSP) and TimeSeriesRequest.get_hash of
\* the request that carries the building sizer request (UTSP)
get_hash(self, backend) ==
    IF backend = "slurm"
    THEN \* the copy is built positionally: archetype_config_ lands in the slot
         \* kpi_for_rating, the paths in archetype_config_, the kpi in the paths
         hash(DumpRequest(self, backend, <<self.archetype_config_>>,
                          DumpList(self.requisite), <<self.kpi_for_rating>>))
    ELSE hash(DumpRequest(self, backend, <<self.kpi_for_rating>>,
                          <<self.archetype_config_>>, DumpList(self.requisite)))

\* dict.update({key: value}) on an insertion-ordered dict
DictUpdate(dict, key, value) ==
    IF \E i \in 1..Len(dict) : dict[i].key = key
    THEN [i \in 1..Len(dict) |-> IF dict[i].key = key
                                   THEN [key |-> key, value |-> value] ELSE dict[i]]
    ELSE Append(dict, [key |-> key, value |-> value])

RECURSIVE UpdateAll(_, _, _, _)
\* dict.update for the handles keys[from..], each with its KPI from the oracle
UpdateAll(dict, keys, kpis, from) ==
    IF from > Len(keys) THEN dict
    ELSE UpdateAll(DictUpdate(dict, keys[from], kpis[keys[from]]), keys, kpis, from + 1)

\* get_results_from_requisite_requests (UTSP) and
\* get_results_from_requisite_hisim_configs (local): one entry per handle, in
\* the order of the handles, built afresh in every call
get_results_from_requisite_hisim_configs(requisite, kpis) ==
    UpdateAll(<<>>, requisite, kpis, 1)

\* all non-empty lists of distinct positions of a list of n handles
Chains(n) ==
    UNION {{c \in [1..m -> 1..n] : \A i, j \in 1..m : i # j => c[i] # c[j]} : m \in 1..n}

\* get_results_from_requisite_hisim_configs_slurm: one job per handle runs
\* run_hisim_simulation_and_collect_kpis, which reads result_dict.json, adds
\* its entry and writes the file back, the jobs running concurrently.  The
\* file ends as the last writer leaves it: the old content updated by a chain
\* of jobs each of which read what its predecessor wrote.
\* A job whose simulation fails writes nothing; its state FAILED counts as
\* done.  With no job writing, the file is read as it was.
get_results_from_requisite_hisim_configs_slurm(requisite, kpis, result_dict_json, failed) ==
    LET Succeeds(handle) == handle \notin failed
        written == SelectSeq(requisite, Succeeds)
    IN  IF written = <<>> THEN {result_dict_json}
        ELSE {UpdateAll(result_dict_json, [i \in 1..Len(chain) |-> written[chain[i]]], kpis, 1) :
                 chain \in Chains(Len(written))}

\* the results a STEP gets for its pending handles, or the exception that
\* ends it (err).  Local: hisim_main.main or the read of the missing KPI file
\* raises.  UTSP: the delivery of a failed calculation raises, at the latest
\* when its kpi_config.json is read.  Slurm: only a result_dict.json that
\* stays empty raises (TimeoutError).
ResolveHandles(b, requisite, kpis, failed, result_dict_json) ==
    IF b = "slurm"
    THEN {[err |-> d = <<>>, result_dict |-> d] :
             d \in get_results_from_requisite_hisim_configs_slurm(
                       requisite, kpis, result_dict_json, failed)}
    ELSE IF Range(requisite) \cap failed # {}
         THEN {[err |-> TRUE, result_dict |-> <<>>]}
         ELSE {[err |-> FALSE,
                result_dict |-> get_results_from_requisite_hisim_configs(requisite, kpis)]}

\* decide_on_mode of the UTSP variant; the no-UTSP variants return "discrete"
decide_on_mode(iteration, boolean_iterations, discrete_iterations) ==
    IF iteration % (boolean_iterations + discrete_iterations) > discrete_iterations
    THEN "bool" ELSE "discrete"

\* mutation of create_hisim_configs: the handles are returned in reverse order
create_hisim_configs_reversed(system_configs, request) ==
    [i \in 1..Len(system_configs) |->
        ConfigCode(system_configs[Len(system_configs) + 1 - i], request.options)]

\* the file name config_{hash}.json of create_hisim_configs, or the
\* simulation_config of the TimeSeriesRequest of send_hisim_requests
create_hisim_configs(system_configs, request) ==
    [i \in 1..Len(system_configs) |-> ConfigCode(system_configs[i], request.options)]

\* mutation of trigger_next_iteration: the next request is the old one with
\* the new handles
trigger_next_iteration_same_budget(request, hisim_configs) ==
    [request EXCEPT !.requisite = create_hisim_configs(hisim_configs, request)]

\* trigger_next_iteration: submit the configs, then build the next request
trigger_next_iteration(request, hisim_configs) ==
    create_subsequent_request(request, create_hisim_configs(hisim_configs, request))

\* mutation of LastIteration: stop only below 0
LastIteration_below_zero(request) == request.remaining_iterations < 0

\* the termination condition of building_sizer_iteration
LastIteration(request) == request.remaining_iterations = 0

\* mutation of NextGeneration: the parents are not kept
NextGeneration_children_only(new_individuals, parent_individuals) == unique(new_individuals)

\* new_individuals.extend(parent_individuals), then unique(new_individuals)
NextGeneration(new_individuals, parent_individuals) ==
    unique(new_individuals \o parent_individuals)

\* building_sizer_iteration from the resolved results on: rate, select, evolve,
\* combine, deduplicate, then stop or trigger the next iteration.  The set of
\* possible returns; err = TRUE is a raised exception.
building_sizer_iteration(request, result_dict, configs, backend) ==
    LET utsp == backend = "utsp"
        rated_individuals ==
            [i \in 1..Len(result_dict) |->
                RatedIndividual(
                    create_individual_from_config(configs[result_dict[i].key], request.options),
                    result_dict[i].value)]
        mode == IF utsp
                THEN decide_on_mode(request.remaining_iterations, request.boolean_iterations,
                                    request.discrete_iterations)
                ELSE "discrete"
    IN  UNION {
          LET parent_individuals == [i \in 1..Len(parents) |-> parents[i].individual]
          IN  {LET new_individuals == NextGeneration(e.children, parent_individuals)
                   Return(err, next, next_generation) ==
                       [err |-> err, next |-> next, rated_individuals |-> rated_individuals,
                        new_individuals |-> next_generation,
                        parents |-> parents, children |-> e.children]
                   decoded == [i \in 1..Len(new_individuals) |->
                                  create_config_from_individual(
                                      new_individuals[i], request.options, DefaultConfig(utsp))]
               IN  IF e.err THEN Return(TRUE, <<>>, <<>>)
                   ELSE IF LastIteration(request)
                   THEN Return(FALSE, <<>>, new_individuals)
                   ELSE IF \E i \in 1..Len(decoded) : decoded[i] = <<>>
                   THEN Return(TRUE, <<>>, new_individuals)
                   ELSE Return(FALSE,
                               <<trigger_next_iteration(
                                   request, [i \in 1..Len(decoded) |-> decoded[i][1]])>>,
                               new_individuals) :
               e \in evolution(parent_individuals, request.crossover_probability,
                               request.mutation_probability, mode, request.options, utsp)} :
          parents \in selection(rated_individuals, request.population_size)}

\* ------------------------------------------------------------------------
\* State
\* ------------------------------------------------------------------------
VARIABLES
    backend,                  \* which variant of the program runs
    oracle,                   \* HiSim: the KPI every configuration evaluates to
    initial_building_sizer_request,
    building_sizer_request,   \* the driver's current request
    previous_iterations,      \* the driver's set of request hashes
    finished,                 \* the driver's loop flag
    status_json,              \* results/status.json: <<>> or <<BuildingSizerResult>>
    config_files,             \* cluster_modular_configs/config_{hash}.json
    result_dict_json,         \* result_dict.json of the slurm variant
    pc,                       \* "call", "check", "done", "loop_detected", "crashed"
    invocations,              \* number of controller invocations so far
    handed,                   \* the requests the controller was invoked on, in order
    last_invocation,          \* what the last controller invocation did
    failing,                  \* the handles whose HiSim evaluation fails
    call                      \* the last call of a function of the library on its own

vars == <<backend, oracle, initial_building_sizer_request, building_sizer_request,
          previous_iterations, finished, status_json, config_files,
          result_dict_json, pc, invocations, handed, last_invocation, failing, call>>

Backends == {"utsp", "local", "slurm"}

\* the external simulation as a function from a configuration (by its code)
\* to its KPI; some configurations are rated equal, some differently
Oracles == {[c \in 0..11 |-> c % 3]}

\* the initial requests start_building_sizer*.main creates: no pending handles
InitialRequests(b) ==
    {BuildingSizerRequest(n, 3, 5, k, 20, 40,
                          IF b = "utsp" THEN SizingOptionsUtsp ELSE SizingOptionsNoUtsp,
                          TOTAL_COSTS, ArcheTypeConfig, <<>>) :
        n \in 0..MaxIterations, k \in PopulationSizes}
    \cup {BuildingSizerRequest(MaxIterations + 1, 3, 5, 1, 20, 40,
                          IF b = "utsp" THEN SizingOptionsUtsp ELSE SizingOptionsNoUtsp,
                          TOTAL_COSTS, ArcheTypeConfig, <<>>)}

NoInvocation ==
    [transition |-> "none", rated_individuals |-> <<>>, submitted |-> <<>>]

\* no function of the library was called on its own
NoCall == [op |-> "none"]

InitWith(backends, failing_sets) ==
    /\ backend \in backends
    /\ failing \in failing_sets
    /\ call = NoCall
    /\ oracle \in Oracles
    /\ initial_building_sizer_request \in InitialRequests(backend)
    /\ building_sizer_request = initial_building_sizer_request
    /\ previous_iterations = {get_hash(initial_building_sizer_request, backend)}
    /\ finished = FALSE
    /\ status_json = <<>>
    /\ config_files = [path \in {} |-> <<>>]
    /\ result_dict_json = <<>>
    /\ pc = "call"
    /\ invocations = 0
    /\ handed = <<>>
    /\ last_invocation = NoInvocation

\* a run in which every evaluation succeeds
InitFor(backends) == InitWith(backends, {{}})

\* the UTSP variant and the variant that runs HiSim in process
Init == InitFor({"utsp", "local"})

\* the variant that runs HiSim in slurm jobs
InitSlurm == InitFor({"slurm"})

\* the files create_hisim_configs writes (no UTSP): one per path
WriteConfigs(files, system_configs, paths) ==
    [path \in DOMAIN files \cup Range(paths) |->
        IF path \in Range(paths)
        THEN system_configs[CHOOSE i \in 1..Len(paths) : paths[i] = path]
        ELSE files[path]]

\* main / main_without_utsp on a request without pending handles: create
\* population_size random configs, submit them, return the next request
Bootstrap ==
    /\ pc = "call"
    /\ building_sizer_request.remaining_iterations >= -MaxOverrun
    /\ building_sizer_request.requisite = <<>>
    /\ \E initial_hisim_configs \in create_random_system_configs(
                building_sizer_request.population_size, building_sizer_request.options,
                DefaultConfig(backend = "utsp")) :
         LET next_request == trigger_next_iteration(building_sizer_request, initial_hisim_configs)
             next == <<next_request>>
         IN  /\ status_json' = <<CreateResult(next, "My first iteration result")>>
             /\ config_files' = IF backend = "utsp" THEN config_files
                                ELSE WriteConfigs(config_files, initial_hisim_configs,
                                                  next_request.requisite)
             /\ last_invocation' = [transition |-> "BOOTSTRAP",
                                    rated_individuals |-> <<>>,
                                    submitted |-> initial_hisim_configs]
    /\ pc' = "check"
    /\ invocations' = invocations + 1
    /\ handed' = Append(handed, building_sizer_request)
    /\ UNCHANGED <<backend, oracle, initial_building_sizer_request, building_sizer_request,
                   previous_iterations, finished, result_dict_json, failing, call>>

\* main / main_without_utsp on a request with pending handles: resolve them
\* and run building_sizer_iteration
Iteration ==
    /\ pc = "call"
    /\ building_sizer_request.remaining_iterations >= -MaxOverrun
    /\ building_sizer_request.requisite # <<>>
    /\ LET request == building_sizer_request
           configs == IF backend = "utsp"
                      THEN [h \in Range(request.requisite) |-> from_json(h, request.options)]
                      ELSE config_files
           results == ResolveHandles(backend, request.requisite, oracle, failing,
                                     result_dict_json)
       IN  \E resolved \in results :
           IF resolved.err
           THEN /\ pc' = "crashed"
                /\ last_invocation' = [transition |-> "STEP",
                                       rated_individuals |-> <<>>,
                                       submitted |-> <<>>]
                /\ UNCHANGED <<status_json, config_files, result_dict_json>>
           ELSE
           \E out \in building_sizer_iteration(request, resolved.result_dict, configs, backend) :
             LET hisim_configs ==
                     IF out.next = <<>> THEN <<>>
                     ELSE [i \in 1..Len(out.new_individuals) |->
                              create_config_from_individual(
                                  out.new_individuals[i], request.options,
                                  DefaultConfig(backend = "utsp"))[1]]
             IN  /\ result_dict_json' = IF backend = "slurm" THEN resolved.result_dict
                                        ELSE result_dict_json
                 /\ last_invocation' = [transition |-> "STEP",
                                        rated_individuals |-> out.rated_individuals,
                                        submitted |-> hisim_configs]
                 /\ IF out.err
                    THEN /\ pc' = "crashed"
                         /\ UNCHANGED <<status_json, config_files>>
                    ELSE /\ pc' = "check"
                         /\ status_json' = <<CreateResult(
                                out.next,
                                IF out.next = <<>> THEN "my final results"
                                ELSE "my interim results")>>
                         /\ config_files' =
                                IF backend = "utsp" \/ out.next = <<>> THEN config_files
                                ELSE WriteConfigs(config_files, hisim_configs,
                                                  out.next[1].requisite)
    /\ invocations' = invocations + 1
    /\ handed' = Append(handed, building_sizer_request)
    /\ UNCHANGED <<backend, oracle, initial_building_sizer_request, building_sizer_request,
                   previous_iterations, finished, failing, call>>

\* the loop detection of the driver: was the request hash seen before?
Detected(previous, request_hash) == request_hash \in previous

\* mutation of Recorded: the hash is not added
Recorded_nothing(previous, request_hash) == previous

\* previous_iterations.add(request_hash)
Recorded(previous, request_hash) == previous \cup {request_hash}

\* the body of the driver's while loop after the controller returned: read
\* status.json, take over the subsequent request, detect loops
Driver ==
    /\ pc = "check"
    /\ LET building_sizer_result == status_json[1]
           subsequent == building_sizer_result.subsequent_building_sizer_request
       IN  /\ finished' = building_sizer_result.finished
           /\ IF subsequent # <<>>
              THEN LET request_hash == get_hash(subsequent[1], backend)
                   IN  /\ building_sizer_request' = subsequent[1]
                       /\ IF Detected(previous_iterations, request_hash)
                          THEN /\ pc' = "loop_detected"
                               /\ UNCHANGED previous_iterations
                          ELSE /\ previous_iterations' = Recorded(previous_iterations, request_hash)
                               /\ pc' = IF building_sizer_result.finished THEN "done" ELSE "call"
              ELSE /\ pc' = IF building_sizer_result.finished THEN "done" ELSE "call"
                   /\ UNCHANGED <<building_sizer_request, previous_iterations>>
    /\ UNCHANGED <<backend, oracle, initial_building_sizer_request, status_json,
                   config_files, result_dict_json, invocations, handed, last_invocation,
                   failing, call>>

Next == Bootstrap \/ Iteration \/ Driver

Spec == Init /\ [][Next]_vars

SpecSlurm == InitSlurm /\ [][Next]_vars

\* runs of every variant in which the evaluation of some configurations fails
FailingSets == {{4}, {5, 7}}

InitFailure == InitWith(Backends, FailingSets)

SpecFailure == InitFailure /\ [][Next]_vars

\* ------------------------------------------------------------------------
\* The driver on its own
\* ------------------------------------------------------------------------
\* The driver reads status.json back as a BuildingSizerResult, whatever wrote
\* it.  These are the subsequent requests such a result may carry: the budget
\* of the given request kept or counted down, a few lists of handles; the
\* given request itself is among them.
SubsequentRequests(request) ==
    {[request EXCEPT !.remaining_iterations = n, !.requisite = h] :
        n \in {request.remaining_iterations, request.remaining_iterations - 1},
        h \in {<<>>, <<1>>, <<1, 2>>}}

\* BuildingSizerResult.from_dict(status_json) for any result that is either
\* finished or carries a subsequent request
ResultsRead(request) ==
    {BuildingSizerResult(TRUE, <<>>, "my final results")}
    \cup {BuildingSizerResult(FALSE, <<r>>, "my interim results") :
            r \in SubsequentRequests(request)}

\* the controller as the driver sees it: it is called with the current
\* request and leaves some result in status.json
Controller ==
    /\ pc = "call"
    /\ \E building_sizer_result \in ResultsRead(initial_building_sizer_request) :
         status_json' = <<building_sizer_result>>
    /\ pc' = "check"
    /\ invocations' = invocations + 1
    /\ handed' = Append(handed, building_sizer_request)
    /\ UNCHANGED <<backend, oracle, initial_building_sizer_request, building_sizer_request,
                   previous_iterations, finished, config_files, result_dict_json,
                   last_invocation, failing, call>>

InitDriver == InitFor(Backends)

NextDriver == Controller \/ Driver

SpecDriver == InitDriver /\ [][NextDriver]_vars

\* ------------------------------------------------------------------------
\* The functions of the library called on their own
\* ------------------------------------------------------------------------
\* all lists of up to n elements of a set
Lists(S, n) == UNION {[1..m -> S] : m \in 0..n}

\* the schema of the variant
OptionsOf(b) == IF b = "utsp" THEN SizingOptionsUtsp ELSE SizingOptionsNoUtsp

\* every individual of the layout of a schema
Individuals(options) ==
    {Individual(b, d) : b \in [1..Len(options.bool_attributes) -> BOOLEAN],
                        d \in DiscreteVectors(options)}

\* ratings as get_kpi returns them
Ratings == {1, 5, 9}

\* two individuals of a schema with each of the ratings
RatedPool(options) ==
    LET first == CHOOSE i \in Individuals(options) : TRUE
        second == CHOOSE i \in Individuals(options) : i # first
    IN  {RatedIndividual(i, r) : i \in {first, second}, r \in Ratings}

\* selection(rated_individuals, population_size)
CallSelection ==
    /\ call = NoCall
    /\ \E rated_individuals \in Lists(RatedPool(OptionsOf(backend)), MaxList),
          population_size \in 0..(MaxList + 1) :
         \E individuals \in selection(rated_individuals, population_size) :
            call' = [op |-> "selection", rated_individuals |-> rated_individuals,
                     population_size |-> population_size, result |-> individuals]
    /\ UNCHANGED <<backend, oracle, initial_building_sizer_request, building_sizer_request,
                   previous_iterations, finished, status_json, config_files,
                   result_dict_json, pc, invocations, handed, last_invocation, failing>>

\* unique(individuals)
CallUnique ==
    /\ call = NoCall
    /\ \E individuals \in Lists(Individuals(OptionsOf(backend)), MaxList) :
            call' = [op |-> "unique", individuals |-> individuals,
                     result |-> unique(individuals)]
    /\ UNCHANGED <<backend, oracle, initial_building_sizer_request, building_sizer_request,
                   previous_iterations, finished, status_json, config_files,
                   result_dict_json, pc, invocations, handed, last_invocation, failing>>

\* the values a gene of a discrete vector takes in these calls
GeneValues == {600, 1200}

\* every individual with nb boolean and nd discrete genes
VectorIndividuals(nb, nd) ==
    {Individual(b, d) : b \in [1..nb -> BOOLEAN], d \in [1..nd -> GeneValues]}

\* the layouts of the parents of a crossover: bool_vector and discrete_vector
\* of any lengths in the UTSP module, a discrete_vector only without UTSP
Layouts(utsp) ==
    IF utsp
    THEN {layout \in (0..MaxList) \X (0..MaxList) : layout[1] + layout[2] <= MaxList + 2}
    ELSE {0} \X (0..MaxList)

\* crossover_conventional(parent1, parent2) on two parents of one layout
CallCrossover ==
    /\ call = NoCall
    /\ \E layout \in Layouts(backend = "utsp") :
         \E parent1, parent2 \in VectorIndividuals(layout[1], layout[2]) :
            \E c \in crossover_conventional(parent1, parent2, backend = "utsp") :
               call' = [op |-> "crossover_conventional", parent1 |-> parent1,
                        parent2 |-> parent2, err |-> c.err,
                        child1 |-> c.child1, child2 |-> c.child2]
    /\ UNCHANGED <<backend, oracle, initial_building_sizer_request, building_sizer_request,
                   previous_iterations, finished, status_json, config_files,
                   result_dict_json, pc, invocations, handed, last_invocation, failing>>

\* mutation_bool(parent) / mutation_discrete(parent, options) as evolution
\* calls them in the mode
CallMutation ==
    /\ call = NoCall
    /\ \E parent \in Individuals(OptionsOf(backend)),
          mode \in (IF backend = "utsp" THEN {"bool", "discrete"} ELSE {"discrete"}) :
         \E m \in Mutation(parent, mode, OptionsOf(backend), backend = "utsp") :
            call' = [op |-> "mutation", mode |-> mode, parent |-> parent,
                     err |-> m.err, child |-> m.child]
    /\ UNCHANGED <<backend, oracle, initial_building_sizer_request, building_sizer_request,
                   previous_iterations, finished, status_json, config_files,
                   result_dict_json, pc, invocations, handed, last_invocation, failing>>

\* schemas a caller can pass to the constructor: the one in use, and ones
\* with an attribute the configuration type does not have (and the schema
\* has no list for), with a discrete attribute of the configuration type
\* without a list (UTSP), with an empty list, and (UTSP) with a list of
\* probabilities of another length than the list of boolean attributes
CandidateOptions(utsp) ==
    IF utsp
    THEN {SizingOptionsUtsp,
          [SizingOptionsUtsp EXCEPT !.bool_attributes = <<"pv_included", "unknown_attribute">>],
          [SizingOptionsUtsp EXCEPT !.discrete_attributes = <<"pv_peak_power", "unknown_attribute">>],
          [SizingOptionsUtsp EXCEPT !.discrete_attributes = <<"pv_peak_power", "battery_included">>],
          [SizingOptionsUtsp EXCEPT !.members = [pv_peak_power |-> <<>>]],
          [SizingOptionsUtsp EXCEPT !.probabilities = <<80>>],
          [SizingOptionsUtsp EXCEPT !.probabilities = <<80, 40, 50>>]}
    ELSE {SizingOptionsNoUtsp,
          [SizingOptionsNoUtsp EXCEPT
              !.discrete_attributes = <<"share_of_maximum_pv_potential", "unknown_attribute">>],
          [SizingOptionsNoUtsp EXCEPT
              !.members = [share_of_maximum_pv_potential |-> <<>>,
                           space_heating_system |-> <<HEAT_PUMP, GAS_HEATING>>]]}

\* the schemas whose construction returns
Constructed(utsp) ==
    {options \in CandidateOptions(utsp) : ~post_init(options, utsp, DefaultConfig(utsp))}

\* SizingOptions(...)
CallSizingOptions ==
    /\ call = NoCall
    /\ \E options \in CandidateOptions(backend = "utsp") :
            call' = [op |-> "SizingOptions", options |-> options,
                     err |-> post_init(options, backend = "utsp", DefaultConfig(backend = "utsp"))]
    /\ UNCHANGED <<backend, oracle, initial_building_sizer_request, building_sizer_request,
                   previous_iterations, finished, status_json, config_files,
                   result_dict_json, pc, invocations, handed, last_invocation, failing>>

\* Individual.create_random_individual(options) on a constructed schema
CallCreateRandomIndividual ==
    /\ call = NoCall
    /\ \E options \in Constructed(backend = "utsp") :
         \E o \in create_random_individual_trace(options) :
            call' = [op |-> "create_random_individual", options |-> options,
                     err |-> o.err, draws |-> o.draws, individual |-> o.individual]
    /\ UNCHANGED <<backend, oracle, initial_building_sizer_request, building_sizer_request,
                   previous_iterations, finished, status_json, config_files,
                   result_dict_json, pc, invocations, handed, last_invocation, failing>>

\* the configurations create_random_system_configs produces under the schema
\* in use
RandomSystemConfigs(utsp) ==
    UNION {Range(system_configs) :
              system_configs \in create_random_system_configs(
                  1, IF utsp THEN SizingOptionsUtsp ELSE SizingOptionsNoUtsp, DefaultConfig(utsp))}

\* create_individual_from_config(system_config, options) on a constructed
\* schema; getattr raises when the configuration lacks a named attribute
CallCreateIndividualFromConfig ==
    /\ call = NoCall
    /\ \E options \in Constructed(backend = "utsp"),
          system_config \in RandomSystemConfigs(backend = "utsp") :
         LET known == Range(options.bool_attributes) \cup Range(options.discrete_attributes)
                          \subseteq DOMAIN system_config
         IN  call' = [op |-> "create_individual_from_config", options |-> options,
                      system_config |-> system_config, err |-> ~known,
                      individual |-> IF known
                                     THEN create_individual_from_config(system_config, options)
                                     ELSE Individual(<<>>, <<>>)]
    /\ UNCHANGED <<backend, oracle, initial_building_sizer_request, building_sizer_request,
                   previous_iterations, finished, status_json, config_files,
                   result_dict_json, pc, invocations, handed, last_invocation, failing>>

\* create_config_from_individual(individual, options) under the schema in
\* use, on individuals of the right and of wrong vector lengths
CallCreateConfigFromIndividual ==
    /\ call = NoCall
    /\ \E nb \in (IF backend = "utsp" THEN 0..MaxList ELSE {0}), nd \in 0..MaxList :
         \E individual \in VectorIndividuals(nb, nd) :
            LET o == create_config_from_individual_trace(
                         individual, OptionsOf(backend), DefaultConfig(backend = "utsp"))
            IN  call' = [op |-> "create_config_from_individual", individual |-> individual,
                         options |-> OptionsOf(backend), err |-> o.err,
                         system_config |-> o.system_config, written |-> o.written]
    /\ UNCHANGED <<backend, oracle, initial_building_sizer_request, building_sizer_request,
                   previous_iterations, finished, status_json, config_files,
                   result_dict_json, pc, invocations, handed, last_invocation, failing>>

\* ------------------------------------------------------------------------
\* The genetic operators on Python objects.  The memory is a list of objects,
\* the reference to an object is its position; an object is a list (of
\* values or of references), an Individual holding the references to its
\* vectors, or a RatedIndividual holding the reference to its individual.
\* Reference 0 stands for a field the class does not have (bool_vector
\* without UTSP).  Each operator is the set of its outcomes [err, heap,
\* result(s)], the heap being the memory when it returns or raises.
\* ------------------------------------------------------------------------
ListObject(items) == [kind |-> "list", items |-> items]

IndividualObject(bool_vector, discrete_vector) ==
    [kind |-> "Individual", bool_vector |-> bool_vector, discrete_vector |-> discrete_vector]

RatedIndividualObject(individual, rating) ==
    [kind |-> "RatedIndividual", individual |-> individual, rating |-> rating]

\* the items of the list behind a reference
Items(heap, ref) == IF ref = 0 THEN <<>> ELSE heap[ref].items

\* the value of the Individual behind a reference, as dataclass __eq__
\* compares it
ValueOf(heap, ref) ==
    Individual(Items(heap, heap[ref].bool_vector), Items(heap, heap[ref].discrete_vector))

\* x[:] of the list behind a reference: a new list with the same items
CopyList(heap, ref) == IF ref = 0 THEN heap ELSE Append(heap, heap[ref])

\* the reference CopyList returns
CopyRef(heap, ref) == IF ref = 0 THEN 0 ELSE Len(heap) + 1

\* mutation of mutation_bool_heap: the vector is not cloned
mutation_bool_heap_in_place(heap, parent) ==
    LET vector_bool == heap[parent].bool_vector
    IN  IF Len(Items(heap, vector_bool)) = 0
        THEN {[err |-> TRUE, heap |-> heap, result |-> 0]}
        ELSE {LET h2 == [heap EXCEPT ![vector_bool].items[bit] = ~@]
              IN  [err |-> FALSE,
                   heap |-> Append(h2, IndividualObject(vector_bool, heap[parent].discrete_vector)),
                   result |-> Len(h2) + 1] :
              bit \in 1..Len(Items(heap, vector_bool))}

\* mutation_bool: clone the bool vector, flip one bit of the clone; the child
\* holds the clone and the discrete vector of the parent itself
mutation_bool_heap(heap, parent) ==
    LET vector_bool == CopyRef(heap, heap[parent].bool_vector)
        h1 == CopyList(heap, heap[parent].bool_vector)
    IN  IF Len(Items(h1, vector_bool)) = 0
        THEN {[err |-> TRUE, heap |-> h1, result |-> 0]}
        ELSE {LET h2 == [h1 EXCEPT ![vector_bool].items[bit] = ~@]
              IN  [err |-> FALSE,
                   heap |-> Append(h2, IndividualObject(vector_bool, heap[parent].discrete_vector)),
                   result |-> Len(h2) + 1] :
              bit \in 1..Len(Items(h1, vector_bool))}

\* mutation_discrete: clone the discrete vector, redraw one gene of the
\* clone; the child holds the bool vector of the parent itself (UTSP)
mutation_discrete_heap(heap, parent, options) ==
    LET vector_discrete == CopyRef(heap, heap[parent].discrete_vector)
        h1 == CopyList(heap, heap[parent].discrete_vector)
    IN  IF Len(Items(h1, vector_discrete)) = 0
        THEN {[err |-> TRUE, heap |-> h1, result |-> 0]}
        ELSE UNION {
               IF bit > Len(options.discrete_attributes)
                  \/ AllowedValues(options, options.discrete_attributes[bit]) = <<>>
               THEN {[err |-> TRUE, heap |-> h1, result |-> 0]}
               ELSE {LET h2 == [h1 EXCEPT ![vector_discrete].items[bit] = value]
                     IN  [err |-> FALSE,
                          heap |-> Append(h2, IndividualObject(heap[parent].bool_vector,
                                                               vector_discrete)),
                          result |-> Len(h2) + 1] :
                     value \in Range(AllowedValues(options, options.discrete_attributes[bit]))} :
               bit \in 1..Len(Items(h1, vector_discrete))}

\* the mutation the mode selects in either module
MutationHeap(heap, parent, mode, options, utsp) ==
    IF mode = "discrete" THEN mutation_discrete_heap(heap, parent, options)
    ELSE IF utsp /\ mode = "bool" THEN mutation_bool_heap(heap, parent)
    ELSE {[err |-> TRUE, heap |-> heap, result |-> 0]}

\* crossover_conventional: clone the vectors of the parents, build the
\* children from slices of the clones (new lists) or, for discrete vectors
\* that are not cut, from the clones themselves
crossover_conventional_heap(heap, parent1, parent2, utsp) ==
    IF ~utsp
    THEN LET vector_discrete_1 == Len(heap) + 1
             vector_discrete_2 == Len(heap) + 2
             h2 == heap \o <<heap[heap[parent1].discrete_vector],
                             heap[heap[parent2].discrete_vector]>>
         IN  {[err |-> FALSE,
               heap |-> h2 \o <<IndividualObject(0, vector_discrete_1),
                                IndividualObject(0, vector_discrete_2)>>,
               child1 |-> Len(h2) + 1, child2 |-> Len(h2) + 2]}
    ELSE LET vector_bool_1 == Len(heap) + 1
             vector_discrete_1 == Len(heap) + 2
             vector_bool_2 == Len(heap) + 3
             vector_discrete_2 == Len(heap) + 4
             h4 == heap \o <<heap[heap[parent1].bool_vector],
                             heap[heap[parent1].discrete_vector],
                             heap[heap[parent2].bool_vector],
                             heap[heap[parent2].discrete_vector]>>
             b1 == h4[vector_bool_1].items
             b2 == h4[vector_bool_2].items
             d1 == h4[vector_discrete_1].items
             d2 == h4[vector_discrete_2].items
         IN  IF Len(b1) < Len(d1) \/ Len(b1) < 2
             THEN {[err |-> TRUE, heap |-> h4, child1 |-> 0, child2 |-> 0]}
             ELSE {LET h6 == h4 \o <<ListObject(Take(b1, pt) \o Drop(b2, pt)),
                                     ListObject(Take(b2, pt) \o Drop(b1, pt))>>
                       cut == pt < Len(d1)
                       h8 == IF cut
                             THEN h6 \o <<ListObject(Take(d1, pt) \o Drop(d2, pt)),
                                          ListObject(Take(d2, pt) \o Drop(d1, pt))>>
                             ELSE h6
                       child_discrete_1 == IF cut THEN Len(h6) + 1 ELSE vector_discrete_1
                       child_discrete_2 == IF cut THEN Len(h6) + 2 ELSE vector_discrete_2
                   IN  [err |-> FALSE,
                        heap |-> h8 \o <<IndividualObject(Len(h4) + 1, child_discrete_1),
                                         IndividualObject(Len(h4) + 2, child_discrete_2)>>,
                        child1 |-> Len(h8) + 1, child2 |-> Len(h8) + 2] :
                   pt \in 1..(Len(b1) - 1)}

\* unique: a new list of the references that are not duplicates by value
unique_heap(heap, individuals) ==
    LET refs == Items(heap, individuals)
        delete_index == {j \in 1..Len(refs) :
                            \E i \in 1..(j - 1) : ValueOf(heap, refs[i]) = ValueOf(heap, refs[j])}
    IN  {[err |-> FALSE,
          heap |-> Append(heap, ListObject(Filter(refs, delete_index, 1))),
          result |-> Len(heap) + 1]}

\* selection: sorted() makes a new list, the slice another one, and
\* random.shuffle reorders the slice in place
selection_heap(heap, rated_individuals, population_size) ==
    LET refs == Items(heap, rated_individuals)
        keyed == [i \in 1..Len(refs) |-> [ref |-> refs[i], rating |-> heap[refs[i]].rating]]
        sorted == SortedByRating(keyed, Len(keyed))
        sorted_refs == [i \in 1..Len(sorted) |-> sorted[i].ref]
        h2 == heap \o <<ListObject(sorted_refs), ListObject(Take(sorted_refs, population_size))>>
    IN  {[err |-> FALSE, heap |-> [h2 EXCEPT ![Len(h2)].items = shuffled], result |-> Len(h2)] :
         shuffled \in Shuffles(Take(sorted_refs, population_size))}

RECURSIVE EvolutionLoopHeap(_, _, _, _, _, _, _, _, _, _)
\* the while loop of evolution from cursor pop; children.append writes into
\* the list evolution created
EvolutionLoopHeap(heap, parents, sel, pop, children, r_cross, r_mut, mode, options, utsp) ==
    LET len_parents == Len(Items(heap, parents))
        parent1 == Items(heap, parents)[((sel + pop) % len_parents) + 1]
        parent2 == Items(heap, parents)[((sel + pop + 1) % len_parents) + 1]
    IN  IF ~(pop < len_parents) THEN {[err |-> FALSE, heap |-> heap, result |-> children]}
        ELSE UNION {
               IF o < r_cross
               THEN UNION {
                      IF c.err THEN {[err |-> TRUE, heap |-> c.heap, result |-> 0]}
                      ELSE EvolutionLoopHeap(
                               [c.heap EXCEPT ![children].items = @ \o <<c.child1, c.child2>>],
                               parents, sel, AfterCrossover(pop), children,
                               r_cross, r_mut, mode, options, utsp) :
                      c \in crossover_conventional_heap(heap, parent1, parent2, utsp)}
               ELSE IF o < r_cross + r_mut
               THEN UNION {
                      IF m.err THEN {[err |-> TRUE, heap |-> m.heap, result |-> 0]}
                      ELSE EvolutionLoopHeap(
                               [m.heap EXCEPT ![children].items = Append(@, m.result)],
                               parents, sel, pop + 1, children,
                               r_cross, r_mut, mode, options, utsp) :
                      m \in MutationHeap(heap, parent1, mode, options, utsp)}
               ELSE EvolutionLoopHeap(heap, parents, sel, pop + 1, children,
                                      r_cross, r_mut, mode, options, utsp) :
               o \in UnitDraws}

\* evolution: draws sel, creates the list children and runs the loop
evolution_heap(heap, parents, r_cross, r_mut, mode, options, utsp) ==
    IF Len(Items(heap, parents)) = 0 THEN {[err |-> TRUE, heap |-> heap, result |-> 0]}
    ELSE UNION {EvolutionLoopHeap(Append(heap, ListObject(<<>>)), parents, sel, 0, Len(heap) + 1,
                                  r_cross, r_mut, mode, options, utsp) :
                sel \in 0..(Len(Items(heap, parents)) - 1)}

\* building_sizer_iteration from the selection to unique: the list of the
\* parents' individuals is new, the children list evolution returned is
\* extended by it in place, unique makes the list of the next generation
next_generation_heap(heap, rated_individuals, population_size, r_cross, r_mut, mode, options, utsp) ==
    UNION {
      LET parents == Items(s.heap, s.result)
          parent_individuals == Len(s.heap) + 1
          h1 == Append(s.heap, ListObject([i \in 1..Len(parents) |-> s.heap[parents[i]].individual]))
      IN  UNION {
            IF e.err THEN {[err |-> TRUE, heap |-> e.heap, result |-> 0]}
            ELSE unique_heap([e.heap EXCEPT ![e.result].items = @ \o Items(h1, parent_individuals)],
                             e.result) :
            e \in evolution_heap(h1, parent_individuals, r_cross, r_mut, mode, options, utsp)} :
      s \in selection_heap(heap, rated_individuals, population_size)}

RECURSIVE Allocate(_, _, _)
\* the memory after the objects of a list of individuals (or rated
\* individuals) were created one after the other
Allocate(heap, values, utsp) ==
    IF values = <<>> THEN heap
    ELSE LET rated == "rating" \in DOMAIN Head(values)
             individual == IF rated THEN Head(values).individual ELSE Head(values)
             h1 == IF utsp THEN Append(heap, ListObject(individual.bool_vector)) ELSE heap
             h2 == Append(h1, ListObject(individual.discrete_vector))
             h3 == Append(h2, IndividualObject(IF utsp THEN Len(h1) ELSE 0, Len(h2)))
         IN  Allocate(IF rated
                      THEN Append(h3, RatedIndividualObject(Len(h3), Head(values).rating))
                      ELSE h3,
                      Tail(values), utsp)

\* the references of the objects Allocate created for the list, in order
References(values, utsp) ==
    LET rated == values # <<>> /\ "rating" \in DOMAIN values[1]
        size == (IF utsp THEN 3 ELSE 2) + (IF rated THEN 1 ELSE 0)
    IN  [i \in 1..Len(values) |-> i * size]

\* the memory holding a list of individuals: its objects, then the list
ListInMemory(values, utsp) ==
    Append(Allocate(<<>>, values, utsp), ListObject(References(values, utsp)))

\* what a call leaves alone
LibraryUnchanged ==
    UNCHANGED <<backend, oracle, initial_building_sizer_request, building_sizer_request,
                previous_iterations, finished, status_json, config_files,
                result_dict_json, pc, invocations, handed, last_invocation, failing>>

\* a call on objects: the memory before and after, the references passed,
\* the references the operator returns as new objects
ObjectCall(op, before, inputs, outcome, created) ==
    [op |-> op \o "_heap", before |-> before, inputs |-> inputs, err |-> outcome.err,
     after |-> outcome.heap, created |-> IF outcome.err THEN {} ELSE created]

\* the parents of a call on objects: of the schema in use and, with UTSP, of
\* a layout whose discrete vectors are cut
ObjectParents(utsp) ==
    IF utsp THEN Individuals(SizingOptionsUtsp) \cup VectorIndividuals(2, 2)
    ELSE Individuals(SizingOptionsNoUtsp)

\* mutation_bool / mutation_discrete on a parent object
CallMutationOnObjects ==
    /\ call = NoCall
    /\ \E parent \in Individuals(OptionsOf(backend)),
          mode \in (IF backend = "utsp" THEN {"bool", "discrete"} ELSE {"discrete"}) :
         LET utsp == backend = "utsp"
             before == Allocate(<<>>, <<parent>>, utsp)
         IN  \E m \in MutationHeap(before, Len(before), mode, OptionsOf(backend), utsp) :
                call' = ObjectCall("mutation_" \o mode, before, <<Len(before)>>, m, {m.result})
    /\ LibraryUnchanged

\* crossover_conventional on two parent objects, or on one object twice
CallCrossoverOnObjects ==
    /\ call = NoCall
    /\ \E parent1, parent2 \in ObjectParents(backend = "utsp"), same \in BOOLEAN :
         LET utsp == backend = "utsp"
             parents == IF same THEN <<parent1>> ELSE <<parent1, parent2>>
             before == Allocate(<<>>, parents, utsp)
             refs == References(parents, utsp)
         IN  /\ Len(parent1.discrete_vector) = Len(parent2.discrete_vector)
             /\ same => parent1 = parent2
             /\ \E c \in crossover_conventional_heap(before, refs[1], refs[Len(refs)], utsp) :
                   call' = ObjectCall("crossover_conventional", before, refs, c,
                                      {c.child1, c.child2})
    /\ LibraryUnchanged

\* unique on a list object
CallUniqueOnObjects ==
    /\ call = NoCall
    /\ \E individuals \in Lists(Individuals(OptionsOf(backend)), MaxList) :
         LET before == ListInMemory(individuals, backend = "utsp")
         IN  \E u \in unique_heap(before, Len(before)) :
                call' = ObjectCall("unique", before, <<Len(before)>>, u, {u.result})
    /\ LibraryUnchanged

\* selection on a list object
CallSelectionOnObjects ==
    /\ call = NoCall
    /\ \E rated_individuals \in Lists(RatedPool(OptionsOf(backend)), MaxList),
          population_size \in 0..MaxList :
         LET before == ListInMemory(rated_individuals, backend = "utsp")
         IN  \E s \in selection_heap(before, Len(before), population_size) :
                call' = ObjectCall("selection", before, <<Len(before)>>, s, {s.result})
    /\ LibraryUnchanged

\* the parents of an evolution on objects: two individuals of the schema
EvolutionPool(options) ==
    LET first == CHOOSE i \in Individuals(options) : TRUE
    IN  {first, CHOOSE i \in Individuals(options) : i # first}

\* the lists of parents handed to evolution: up to MaxList individuals of the
\* pool, no two neighbours equal
EvolutionParents(options) ==
    {parents \in Lists(EvolutionPool(options), MaxList) :
        \A i \in 1..(Len(parents) - 1) : parents[i] # parents[i + 1]}

\* evolution on a list object
CallEvolutionOnObjects ==
    /\ call = NoCall
    /\ \E parents \in Lists(EvolutionPool(OptionsOf(backend)), 2),
          mode \in (IF backend = "utsp" THEN {"bool", "discrete"} ELSE {"discrete"}) :
         LET before == ListInMemory(parents, backend = "utsp")
             request == initial_building_sizer_request
         IN  \E e \in evolution_heap(before, Len(before), request.crossover_probability,
                                     request.mutation_probability, mode, OptionsOf(backend),
                                     backend = "utsp") :
                call' = ObjectCall("evolution", before, <<Len(before)>>, e,
                                   {e.result} \cup Range(Items(e.heap, e.result)))
    /\ LibraryUnchanged

\* the lines of building_sizer_iteration that make the next generation, on
\* the list object of the rated individuals
CallNextGenerationOnObjects ==
    /\ call = NoCall
    /\ \E rated_individuals \in Lists(RatedPool(OptionsOf(backend)), 2),
          population_size \in 1..2,
          mode \in (IF backend = "utsp" THEN {"bool", "discrete"} ELSE {"discrete"}) :
         LET before == ListInMemory(rated_individuals, backend = "utsp")
             request == initial_building_sizer_request
         IN  \E g \in next_generation_heap(before, Len(before), population_size,
                                           request.crossover_probability,
                                           request.mutation_probability, mode,
                                           OptionsOf(backend), backend = "utsp") :
                call' = ObjectCall("next_generation", before, <<Len(before)>>, g, {g.result})
    /\ LibraryUnchanged

\* mutation of ParentIndex: the offset sel is not used
ParentIndex_without_sel(sel, pop, len_parents) == pop % len_parents

\* the index (sel + pop) % len_parents of evolution, counted from 0
ParentIndex(sel, pop, len_parents) == (sel + pop) % len_parents

RECURSIVE EvolutionTraceLoop(_, _, _, _, _, _, _, _, _, _)
\* the while loop of evolution with a record of every turn: the cursor, the
\* number drawn, the indices of the parents used and the children appended
EvolutionTraceLoop(parents, sel, pop, children, steps, r_cross, r_mut, mode, options, utsp) ==
    LET len_parents == Len(parents)
        index1 == ParentIndex(sel, pop, len_parents)
        index2 == ParentIndex(sel, pop + 1, len_parents)
        Turn(o, used, appended) == [pop |-> pop, o |-> o, parents |-> used, appended |-> appended]
        Return(err, turns) ==
            [err |-> err, sel |-> sel, pop |-> pop, children |-> children, steps |-> turns]
    IN  IF ~(pop < len_parents) THEN {Return(FALSE, steps)}
        ELSE UNION {
               IF o < r_cross
               THEN UNION {
                      IF c.err THEN {Return(TRUE, Append(steps, Turn(o, <<index1, index2>>, <<>>)))}
                      ELSE EvolutionTraceLoop(
                               parents, sel, AfterCrossover(pop), children \o <<c.child1, c.child2>>,
                               Append(steps, Turn(o, <<index1, index2>>, <<c.child1, c.child2>>)),
                               r_cross, r_mut, mode, options, utsp) :
                      c \in crossover_conventional(parents[index1 + 1], parents[index2 + 1], utsp)}
               ELSE IF o < r_cross + r_mut
               THEN UNION {
                      IF m.err THEN {Return(TRUE, Append(steps, Turn(o, <<index1>>, <<>>)))}
                      ELSE EvolutionTraceLoop(
                               parents, sel, pop + 1, children \o <<m.child>>,
                               Append(steps, Turn(o, <<index1>>, <<m.child>>)),
                               r_cross, r_mut, mode, options, utsp) :
                      m \in Mutation(parents[index1 + 1], mode, options, utsp)}
               ELSE EvolutionTraceLoop(parents, sel, pop + 1, children,
                                       Append(steps, Turn(o, <<>>, <<>>)),
                                       r_cross, r_mut, mode, options, utsp) :
               o \in UnitDraws}

\* evolution with the record of its turns
evolution_trace(parents, r_cross, r_mut, mode, options, utsp) ==
    IF Len(parents) = 0
    THEN {[err |-> TRUE, sel |-> 0, pop |-> 0, children |-> <<>>, steps |-> <<>>]}
    ELSE UNION {EvolutionTraceLoop(parents, sel, 0, <<>>, <<>>, r_cross, r_mut, mode, options, utsp) :
                sel \in 0..(Len(parents) - 1)}

\* the crossover and mutation probabilities evolution is called with: those
\* of the request, crossover at every turn and neither operator ever
Probabilities(request) ==
    {<<request.crossover_probability, request.mutation_probability>>, <<100, 0>>, <<0, 0>>}

\* evolution(parents, r_cross, r_mut, mode, options)
CallEvolution ==
    /\ call = NoCall
    /\ \E parents \in EvolutionParents(OptionsOf(backend)),
          mode \in (IF backend = "utsp" THEN {"bool", "discrete"} ELSE {"discrete"}),
          probabilities \in Probabilities(initial_building_sizer_request) :
         LET r_cross == probabilities[1]
             r_mut == probabilities[2]
         IN  \E e \in evolution_trace(parents, r_cross, r_mut, mode, OptionsOf(backend),
                                      backend = "utsp") :
                call' = [op |-> "evolution", parents |-> parents, mode |-> mode,
                         r_cross |-> r_cross,
                         r_mut |-> r_mut,
                         err |-> e.err, sel |-> e.sel, pop |-> e.pop, steps |-> e.steps,
                         children |-> e.children]
    /\ LibraryUnchanged

\* building_sizer_iteration(request) on a request with the pending handles
\* of a generation of random configurations, every evaluation delivered
CallBuildingSizerIteration ==
    /\ call = NoCall
    /\ \E number \in 1..2, remaining_iterations \in 0..1, population_size \in 1..2 :
         \E hisim_configs \in create_random_system_configs(
                                  number, OptionsOf(backend), DefaultConfig(backend = "utsp")) :
            LET handles == create_hisim_configs(hisim_configs, initial_building_sizer_request)
                request == [initial_building_sizer_request EXCEPT
                               !.remaining_iterations = remaining_iterations,
                               !.population_size = population_size,
                               !.requisite = handles]
                configs == [h \in Range(handles) |->
                               hisim_configs[CHOOSE i \in 1..number : handles[i] = h]]
            IN  \E out \in building_sizer_iteration(
                               request,
                               get_results_from_requisite_hisim_configs(handles, oracle),
                               configs, backend) :
                   call' = [op |-> "building_sizer_iteration", request |-> request,
                            err |-> out.err, parents |-> out.parents,
                            children |-> out.children,
                            new_individuals |-> out.new_individuals,
                            next |-> out.next]
    /\ LibraryUnchanged

\* the largest boolean_iterations and discrete_iterations of a request
MaxModeIterations == 3

\* decide_on_mode(iteration, boolean_iterations, discrete_iterations) for
\* boolean_iterations + discrete_iterations consecutive iteration numbers
CallDecideOnMode ==
    /\ call = NoCall
    /\ backend = "utsp"
    /\ \E iteration \in 0..MaxIterations :
         \E boolean_iterations, discrete_iterations \in 1..MaxModeIterations :
            call' = [op |-> "decide_on_mode", iteration |-> iteration,
                     boolean_iterations |-> boolean_iterations,
                     discrete_iterations |-> discrete_iterations,
                     modes |-> [k \in 1..(boolean_iterations + discrete_iterations) |->
                                  decide_on_mode(iteration + k - 1, boolean_iterations,
                                                 discrete_iterations)]]
    /\ LibraryUnchanged

\* the library loaded by either variant, no iteration of the sizer started
InitFunctions ==
    /\ InitFor({"utsp", "local"})
    /\ initial_building_sizer_request.remaining_iterations = 0
    /\ initial_building_sizer_request.population_size = 1

NextFunctions ==
    \/ CallSelection
    \/ CallUnique
    \/ CallCrossover
    \/ CallMutation
    \/ CallSizingOptions
    \/ CallCreateRandomIndividual
    \/ CallCreateIndividualFromConfig
    \/ CallCreateConfigFromIndividual
    \/ CallMutationOnObjects
    \/ CallCrossoverOnObjects
    \/ CallUniqueOnObjects
    \/ CallSelectionOnObjects
    \/ CallEvolutionOnObjects
    \/ CallNextGenerationOnObjects
    \/ CallEvolution
    \/ CallBuildingSizerIteration
    \/ CallDecideOnMode

SpecFunctions == InitFunctions /\ [][NextFunctions]_vars

\* ------------------------------------------------------------------------
\* get_results_from_requisite_hisim_configs_slurm step by step: the jobs are
\* submitted, then squeue is asked for one job after the other until one pass
\* over all jobs finds every job done; slurm moves the jobs meanwhile.
\* ------------------------------------------------------------------------
MaxJobs == 2

\* what squeue answers for a job: its line while it is queued or running,
\* its end state, or nothing once it left the queue
JobStates == {"PENDING", "RUNNING", "COMPLETED", "FAILED", "CANCELLED", ""}

\* job_state = None: the squeue call failed (CalledProcessError)
None == "None"

\* the states slurm may move a job to
JobSuccessors(job_state) ==
    CASE job_state = "PENDING" -> {"RUNNING", "CANCELLED"}
      [] job_state = "RUNNING" -> {"COMPLETED", "FAILED", "CANCELLED"}
      [] job_state \in {"COMPLETED", "FAILED", "CANCELLED"} -> {""}
      [] OTHER -> {}

\* mutation of JobDone: only a job seen queued or running is waited for
JobDone_unless_seen_active(job_state) == job_state \notin {"PENDING", "RUNNING"}

\* the negation of `job_state not in ["COMPLETED", "FAILED", "CANCELLED", ""]`
JobDone(job_state) == job_state \in {"COMPLETED", "FAILED", "CANCELLED", ""}

\* sbatch once per pending handle; with no handle the first pass is done at
\* once
SubmitJobs ==
    /\ call = NoCall
    /\ \E n \in 0..MaxJobs :
          call' = [op |-> "get_results_from_requisite_hisim_configs_slurm",
                   phase |-> IF n = 0 THEN "returned" ELSE "polling",
                   jobs |-> [i \in 1..n |-> "PENDING"],
                   cursor |-> 1, observed |-> <<>>, waited |-> FALSE]
    /\ LibraryUnchanged

\* slurm starts, ends or forgets a job
JobAdvances ==
    /\ call.op = "get_results_from_requisite_hisim_configs_slurm"
    /\ \E j \in 1..Len(call.jobs) :
         \E job_state \in JobSuccessors(call.jobs[j]) :
            call' = [call EXCEPT !.jobs[j] = job_state]
    /\ LibraryUnchanged

\* one turn of the for loop: squeue for the job at the cursor; a job that is
\* not done ends the pass (all_done = False; break), the last job done ends
\* the polling (all_done stays True)
PollJob ==
    /\ call.op = "get_results_from_requisite_hisim_configs_slurm"
    /\ call.phase = "polling"
    /\ \E job_state \in {call.jobs[call.cursor], None} :
          call' = [call EXCEPT
                     !.observed = Append(@, job_state),
                     !.cursor = IF JobDone(job_state) THEN @ + 1 ELSE @,
                     !.phase = IF ~JobDone(job_state) THEN "sleeping"
                               ELSE IF call.cursor = Len(call.jobs) THEN "returned"
                               ELSE "polling"]
    /\ LibraryUnchanged

\* time.sleep(30) is over: the next pass starts with the first job
NextPass ==
    /\ call.op = "get_results_from_requisite_hisim_configs_slurm"
    /\ call.phase = "sleeping"
    /\ call' = [call EXCEPT !.phase = "polling", !.cursor = 1, !.observed = <<>>,
                            !.waited = TRUE]
    /\ LibraryUnchanged

InitPolling ==
    /\ InitFor({"slurm"})
    /\ initial_building_sizer_request.remaining_iterations = 0
    /\ initial_building_sizer_request.population_size = 1

NextPolling ==
    \/ SubmitJobs
    \/ JobAdvances
    \/ PollJob
    \/ NextPass

SpecPolling == InitPolling /\ [][NextPolling]_vars

\* ------------------------------------------------------------------------
\* trigger_next_iteration of the UTSP variant step by step: what is sent to
\* the UTSP, in order
\* ------------------------------------------------------------------------
MaxRequests == 2

\* utspclient's CalculationStatus of a reply
CalculationStatus == {"UNKNOWN", "INCALCULATION", "INDATABASE", "CALCULATIONFAILED"}

\* mutation of ReplyAccepted: only a failed calculation is refused
ReplyAccepted_unless_failed(status) == status # "CALCULATIONFAILED"

\* the assert of send_hisim_requests on reply.status
ReplyAccepted(status) == status \notin {"CALCULATIONFAILED", "UNKNOWN"}

\* trigger_next_iteration(request, hisim_configs) is entered with the
\* configurations of the new generation
EnterTrigger ==
    /\ call = NoCall
    /\ \E n \in 0..MaxRequests :
         \E hisim_configs \in create_random_system_configs(
                                  n, SizingOptionsUtsp, DefaultConfig(TRUE)) :
            call' = [op |-> "trigger_next_iteration",
                     request |-> initial_building_sizer_request,
                     hisim_requests |-> create_hisim_configs(
                                            hisim_configs, initial_building_sizer_request),
                     cursor |-> 1, sent |-> <<>>, replies |-> <<>>, phase |-> "send_hisim_requests"]
    /\ LibraryUnchanged

\* one turn of the loop of send_hisim_requests: send the request, assert on
\* the status of the reply
SendHisimRequest ==
    /\ call.op = "trigger_next_iteration"
    /\ call.phase = "send_hisim_requests"
    /\ call.cursor <= Len(call.hisim_requests)
    /\ \E status \in CalculationStatus :
          call' = [call EXCEPT
                     !.sent = Append(@, [provider |-> "hisim",
                                         simulation_config |-> call.hisim_requests[call.cursor]]),
                     !.replies = Append(@, status),
                     !.cursor = @ + 1,
                     !.phase = IF ReplyAccepted(status) THEN @ ELSE "raised"]
    /\ LibraryUnchanged

\* send_building_sizer_request once send_hisim_requests has returned
SendBuildingSizerRequest ==
    /\ call.op = "trigger_next_iteration"
    /\ call.phase = "send_hisim_requests"
    /\ call.cursor > Len(call.hisim_requests)
    /\ call' = [call EXCEPT
                  !.sent = Append(@, [provider |-> "building_sizer",
                                      simulation_config |->
                                          create_subsequent_request(call.request,
                                                                    call.hisim_requests)]),
                  !.phase = "returned"]
    /\ LibraryUnchanged

InitTrigger ==
    /\ InitFor({"utsp"})
    /\ initial_building_sizer_request.population_size = 2

NextTrigger ==
    \/ EnterTrigger
    \/ SendHisimRequest
    \/ SendBuildingSizerRequest

SpecTrigger == InitTrigger /\ [][NextTrigger]_vars

\* ------------------------------------------------------------------------
\* Properties
\* ------------------------------------------------------------------------
\* the result of the last controller invocation, while the driver has not
\* yet taken it over (pc = "check"); the request it consumed is still the
\* driver's building_sizer_request
Returned == pc = "check"

Result == status_json[1]

Consumed == building_sizer_request

\* the requests of the run so far, in order: those handed to the controller,
\* then the one the controller just returned or the driver holds next
RunRequests ==
    handed \o (IF pc = "call" THEN <<building_sizer_request>>
               ELSE IF pc \in {"check", "loop_detected"} /\ status_json # <<>>
               THEN Result.subsequent_building_sizer_request
               ELSE <<>>)

\* C1: a run that started from a request without pending handles ends with
\* a finished result.  The budget only counts down, so the run has to end by
\* the time the budget is used up: a STEP on a request whose remaining budget
\* is 0 or less returns finished = true.
C1_StepWithoutBudgetFinishes ==
    (Returned /\ last_invocation.transition = "STEP"
        /\ Consumed.remaining_iterations <= 0)
    => Result.finished

\* C2: in every result the controller returns, finished is true exactly when
\* the result carries no subsequent request.
C2_FinishedIffNoSuccessor ==
    status_json # <<>>
    => (Result.finished <=> Result.subsequent_building_sizer_request = <<>>)

C2_Witness ==
    /\ Returned /\ Result.finished
    /\ last_invocation.transition = "STEP"
    /\ Len(handed) > 1

\* C3 as stated: the request BOOTSTRAP returns carries the budget of the
\* initiating request, the initiating call is not charged.
C3_BootstrapKeepsBudget ==
    (Returned /\ last_invocation.transition = "BOOTSTRAP")
    => /\ Result.subsequent_building_sizer_request # <<>>
       /\ Result.subsequent_building_sizer_request[1].remaining_iterations
              = Consumed.remaining_iterations

\* C3 amended: the request BOOTSTRAP returns carries the budget of the
\* initiating request minus one; the result is not finished.
C3_BootstrapCountsDown ==
    (Returned /\ last_invocation.transition = "BOOTSTRAP")
    => /\ ~Result.finished
       /\ Result.subsequent_building_sizer_request # <<>>
       /\ Result.subsequent_building_sizer_request[1].remaining_iterations
              = Consumed.remaining_iterations - 1

C3_Witness ==
    /\ Returned /\ last_invocation.transition = "BOOTSTRAP"
    /\ Consumed.remaining_iterations = MaxIterations
    /\ Consumed.population_size > 1

\* C4: a STEP on a request with remaining budget r # 0 returns finished =
\* false and a subsequent request with budget r - 1 whose pending handles are
\* the handles of the configurations just submitted, in their order, and
\* whose other fields are those of the consumed request.
C4_StepContinues ==
    (Returned /\ last_invocation.transition = "STEP"
        /\ Consumed.remaining_iterations # 0)
    => /\ ~Result.finished
       /\ Result.subsequent_building_sizer_request # <<>>
       /\ LET next == Result.subsequent_building_sizer_request[1]
              submitted == last_invocation.submitted
          IN  /\ next.remaining_iterations = Consumed.remaining_iterations - 1
              /\ Len(next.requisite) = Len(submitted)
              /\ submitted # <<>>
              /\ \A i \in 1..Len(submitted) :
                    /\ next.requisite[i] = ConfigCode(submitted[i], Consumed.options)
                    /\ backend # "utsp" => config_files[next.requisite[i]] = submitted[i]
              /\ next = [Consumed EXCEPT !.remaining_iterations = next.remaining_iterations,
                                         !.requisite = next.requisite]

C4_Witness ==
    /\ Returned /\ last_invocation.transition = "STEP"
    /\ Consumed.remaining_iterations > 0
    /\ Len(last_invocation.submitted) > Consumed.population_size

\* C5: a STEP on a request with remaining budget 0 returns finished = true
\* and no subsequent request, and it submits nothing: no configuration file
\* is written and no configuration is sent.
C5_StepAtZeroFinishes ==
    [][(/\ pc = "call"
        /\ handed' # handed
        /\ building_sizer_request.requisite # <<>>
        /\ building_sizer_request.remaining_iterations = 0)
       => /\ pc' = "check"
          /\ status_json'[1].finished
          /\ status_json'[1].subsequent_building_sizer_request = <<>>
          /\ last_invocation'.submitted = <<>>
          /\ config_files' = config_files]_vars

C5_Witness ==
    /\ Returned /\ last_invocation.transition = "STEP"
    /\ Consumed.remaining_iterations = 0
    /\ Len(last_invocation.rated_individuals) > 1

\* C6: the remaining budget of every request the driver holds and of every
\* subsequent request the controller returns is 0 or more.
C6_BudgetNeverNegative ==
    /\ building_sizer_request.remaining_iterations >= 0
    /\ (status_json # <<>> /\ Result.subsequent_building_sizer_request # <<>>)
       => Result.subsequent_building_sizer_request[1].remaining_iterations >= 0

\* C7: the controller is never invoked on a request whose hash is the hash
\* of a request handed to it before; when the hash of a subsequent request
\* is in the set of seen hashes the driver raises the cycle error and stops,
\* otherwise it adds the hash and goes on with that request; the set of seen
\* hashes only grows.
C7_LoopDetection ==
    [][/\ pc # "loop_detected"
       /\ previous_iterations \subseteq previous_iterations'
       /\ handed' # handed
          => /\ get_hash(building_sizer_request, backend) \in previous_iterations
             /\ \A i \in 1..Len(handed) :
                   get_hash(handed[i], backend) # get_hash(building_sizer_request, backend)
       /\ (pc = "check" /\ Result.subsequent_building_sizer_request # <<>>)
          => LET next == Result.subsequent_building_sizer_request[1]
             IN  IF get_hash(next, backend) \in previous_iterations
                 THEN /\ pc' = "loop_detected"
                      /\ previous_iterations' = previous_iterations
                 ELSE /\ pc' = "call"
                      /\ building_sizer_request' = next
                      /\ previous_iterations'
                            = previous_iterations \cup {get_hash(next, backend)}]_vars

C7_Witness ==
    /\ pc = "loop_detected"
    /\ Len(handed) > 2
    /\ Result.subsequent_building_sizer_request[1] # initial_building_sizer_request

\* C8: in a run of the controller the budgets of successive requests are
\* strictly decreasing, so the requests of the run have pairwise different
\* hashes and the cycle error is not raised.
C8_BudgetsStrictlyDecrease ==
    /\ pc # "loop_detected"
    /\ \A i \in 1..(Len(RunRequests) - 1) :
          RunRequests[i + 1].remaining_iterations < RunRequests[i].remaining_iterations
    /\ \A i, j \in 1..Len(RunRequests) :
          i # j => get_hash(RunRequests[i], backend) # get_hash(RunRequests[j], backend)

C8_Witness ==
    /\ pc = "done"
    /\ Len(handed) = MaxIterations + 1
    /\ Cardinality(previous_iterations) = Len(handed)

\* a list with the elements at two positions exchanged
Swapped(list, i, j) ==
    [k \in 1..Len(list) |-> IF k = i THEN list[j] ELSE IF k = j THEN list[i] ELSE list[k]]

\* the requests that differ from a request in the order of its pending
\* handles only: two handles exchanged
Reordered(request) ==
    {[request EXCEPT !.requisite = Swapped(request.requisite, i, j)] :
        i \in 1..Len(request.requisite), j \in 1..Len(request.requisite)}

\* the requests that differ from a request in at most one field
Variants(request) ==
    Reordered(request)
    \cup {[request EXCEPT !.remaining_iterations = n] :
            n \in {request.remaining_iterations - 1, request.remaining_iterations}}
    \cup {[request EXCEPT !.population_size = k] : k \in PopulationSizes}
    \cup {[request EXCEPT !.requisite = h] :
            h \in {<<>>, Take(request.requisite, 1), request.requisite \o <<0>>}}

\* C9 as stated: the hash of a request does not depend on the order of the
\* elements within a field: reordering the pending handles keeps the hash.
C9_HashIgnoresOrder ==
    \A b \in Backends :
        LET request_hash == get_hash(building_sizer_request, b)
        IN  \A r \in Reordered(building_sizer_request) : get_hash(r, b) = request_hash

\* C9 amended: the hash is that of the dumped request, which lists every
\* field and keeps the order of the pending handles: a request equal in
\* every field and in the order of its handles has the same hash, and a
\* request that differs in a field or only in the order of its handles is
\* hashed from a different dump.
C9_HashOfDump ==
    \A b \in Backends :
        LET request_hash == get_hash(building_sizer_request, b)
        IN  \A r \in Variants(building_sizer_request) :
                (get_hash(r, b) = request_hash) <=> (r = building_sizer_request)

C9_Witness ==
    /\ Len(building_sizer_request.requisite) > 1
    /\ \E r \in Reordered(building_sizer_request) : r # building_sizer_request

\* the individual a pending handle stands for
IndividualOf(handle, request) ==
    create_individual_from_config(
        IF backend = "utsp" THEN from_json(handle, request.options) ELSE config_files[handle],
        request.options)

\* C10: the individuals a STEP rates are those of the pending handles of the
\* consumed request: one per distinct handle, every handle represented, and
\* none that comes from an earlier iteration.
C10_RatedAreThePending ==
    (Returned /\ last_invocation.transition = "STEP")
    => LET pending == Range(Consumed.requisite)
           rated == last_invocation.rated_individuals
       IN  /\ Len(rated) = Cardinality(pending)
           /\ \A h \in pending : \E i \in 1..Len(rated) :
                 rated[i].individual = IndividualOf(h, Consumed)
           /\ \A i \in 1..Len(rated) : \E h \in pending :
                 rated[i].individual = IndividualOf(h, Consumed)

\* C11: a STEP one of whose pending handles resolves to a failure aborts
\* with an error: nothing is rated or selected from the partial results, no
\* subsequent request is returned and nothing is submitted.
C11_FailureAbortsStep ==
    (/\ pc \in {"check", "crashed"}
     /\ last_invocation.transition = "STEP"
     /\ Range(Consumed.requisite) \cap failing # {})
    => /\ pc = "crashed"
       /\ last_invocation.rated_individuals = <<>>
       /\ last_invocation.submitted = <<>>

\* C12: the request BOOTSTRAP returns carries exactly population_size
\* pending handles, the i-th being the handle of the i-th randomly created
\* individual; equal individuals keep their places.
C12_BootstrapHandles ==
    (Returned /\ last_invocation.transition = "BOOTSTRAP")
    => LET next == Result.subsequent_building_sizer_request[1]
           submitted == last_invocation.submitted
       IN  /\ Len(next.requisite) = Consumed.population_size
           /\ Len(submitted) = Consumed.population_size
           /\ \A i \in 1..Len(submitted) :
                 /\ next.requisite[i] = ConfigCode(submitted[i], Consumed.options)
                 /\ \E individual \in create_random_individual(Consumed.options) :
                       submitted[i] = create_config_from_individual(
                                          individual, Consumed.options,
                                          DefaultConfig(backend = "utsp"))[1]

C12_Witness ==
    /\ Returned /\ last_invocation.transition = "BOOTSTRAP"
    /\ Consumed.population_size = 2
    /\ LET next == Result.subsequent_building_sizer_request[1]
       IN  next.requisite[1] = next.requisite[2]

\* the elements of a list that are matched by an injective choice of
\* positions of another list
IsSelectionOf(returned, rated, f) ==
    /\ \A i, j \in 1..Len(returned) : i # j => f[i] # f[j]
    /\ \A i \in 1..Len(returned) : rated[f[i]] = returned[i]
    /\ \A j \in 1..Len(rated) :
          (\A i \in 1..Len(returned) : f[i] # j)
          => \A i \in 1..Len(returned) : returned[i].rating >= rated[j].rating

\* C13: selection returns at most min(k, len(rated)) elements, every one of
\* them an element of the input (each input element at most once), and every
\* returned rating is >= the rating of every input element not returned.
C13_SelectionTopK ==
    call.op = "selection"
    => LET rated == call.rated_individuals
           returned == call.result
           k == call.population_size
       IN  /\ Len(returned) <= k
           /\ Len(returned) <= Len(rated)
           /\ \E f \in [1..Len(returned) -> 1..Len(rated)] :
                 IsSelectionOf(returned, rated, f)

C13_Witness ==
    /\ call.op = "selection"
    /\ call.population_size = 2
    /\ Len(call.rated_individuals) = 3
    /\ [i \in 1..3 |-> call.rated_individuals[i].rating] = <<5, 1, 9>>
    /\ Len(call.result) = 2

\* C14: unique is idempotent and never lengthens its input.
C14_UniqueIdempotent ==
    call.op = "unique"
    => /\ unique(call.result) = call.result
       /\ Len(call.result) <= Len(call.individuals)

C14_Witness ==
    /\ call.op = "unique"
    /\ Len(call.individuals) = MaxList
    /\ Len(call.result) = 2
    /\ call.individuals[1] = call.individuals[MaxList]

\* the number of times a gene occurs in a vector
Count(vector, gene) == Cardinality({i \in 1..Len(vector) : vector[i] = gene})

\* two vectors hold the same genes, as multisets
SameGenes(v, w) == \A gene \in Range(v) \cup Range(w) : Count(v, gene) = Count(w, gene)

\* C15: the children crossover returns for two parents of one layout hold,
\* taken together, the genes of the two parents taken together, as multisets,
\* in the boolean vectors and in the discrete vectors.
C15_CrossoverKeepsGenes ==
    (call.op = "crossover_conventional" /\ ~call.err)
    => /\ SameGenes(call.child1.bool_vector \o call.child2.bool_vector,
                    call.parent1.bool_vector \o call.parent2.bool_vector)
       /\ SameGenes(call.child1.discrete_vector \o call.child2.discrete_vector,
                    call.parent1.discrete_vector \o call.parent2.discrete_vector)

C15_Witness ==
    /\ call.op = "crossover_conventional" /\ ~call.err
    /\ call.child1.bool_vector # call.parent1.bool_vector
    /\ call.child1.discrete_vector # call.parent1.discrete_vector
    /\ call.child1.discrete_vector # call.parent2.discrete_vector

\* the positions at which a child differs from its parent
ChangedGenes(parent, child) ==
    {<<"bool", i>> : i \in {j \in 1..Len(parent.bool_vector) :
                               child.bool_vector[j] # parent.bool_vector[j]}}
    \cup {<<"discrete", i>> : i \in {j \in 1..Len(parent.discrete_vector) :
                                        child.discrete_vector[j] # parent.discrete_vector[j]}}

\* C16: the child a mutation returns differs from the parent in exactly one
\* position of its vectors.
C16_MutationChangesOneGene ==
    (call.op = "mutation" /\ ~call.err)
    => /\ Len(call.child.bool_vector) = Len(call.parent.bool_vector)
       /\ Len(call.child.discrete_vector) = Len(call.parent.discrete_vector)
       /\ Cardinality(ChangedGenes(call.parent, call.child)) = 1

\* C17: under the schema in use, decoding the encoding of a configuration of
\* the random population gives the configuration back on every schema
\* attribute, and encoding the decoding of an individual of schema length
\* gives the individual back.
C17_RoundTrip ==
    /\ (call.op = "create_individual_from_config" /\ call.options = OptionsOf(backend))
       => /\ ~call.err
          /\ LET decoded == create_config_from_individual(
                                call.individual, call.options, DefaultConfig(backend = "utsp"))
             IN  /\ decoded # <<>>
                 /\ \A name \in Range(call.options.bool_attributes)
                                \cup Range(call.options.discrete_attributes) :
                       decoded[1][name] = call.system_config[name]
    /\ (/\ call.op = "create_config_from_individual"
        /\ Len(call.individual.bool_vector) = Len(call.options.bool_attributes)
        /\ Len(call.individual.discrete_vector) = Len(call.options.discrete_attributes))
       => /\ ~call.err
          /\ create_individual_from_config(call.system_config, call.options) = call.individual

C17_Witness ==
    /\ call.op = "create_config_from_individual" /\ ~call.err
    /\ call.system_config # DefaultConfig(backend = "utsp")
    /\ Len(call.individual.discrete_vector) > 0
    /\ \E other \in VectorIndividuals(Len(call.individual.bool_vector),
                                      Len(call.individual.discrete_vector)) :
          /\ other # call.individual
          /\ create_config_from_individual(other, call.options, DefaultConfig(backend = "utsp"))[1]
             # call.system_config

\* a vector of the individual has not the length of its list of attributes
LengthMismatch(individual, options) ==
    \/ Len(individual.bool_vector) # Len(options.bool_attributes)
    \/ Len(individual.discrete_vector) # Len(options.discrete_attributes)

\* C18 as stated: decoding an individual with a vector of the wrong length
\* fails, and no attribute was written onto the configuration object when it
\* fails.
C18_NoWriteBeforeFailure ==
    (call.op = "create_config_from_individual"
     /\ LengthMismatch(call.individual, call.options))
    => /\ call.err
       /\ call.written = 0
       /\ call.system_config = DefaultConfig(backend = "utsp")

\* C18 amended: decoding an individual with a vector of the wrong length
\* fails; a boolean vector of the wrong length fails before any write; a
\* discrete vector of the wrong length, the boolean one being right, fails
\* after the boolean attributes and before any discrete attribute was written.
C18_FailureAfterBoolWrites ==
    (call.op = "create_config_from_individual"
     /\ LengthMismatch(call.individual, call.options))
    => /\ call.err
       /\ IF Len(call.individual.bool_vector) # Len(call.options.bool_attributes)
          THEN /\ call.written = 0
               /\ call.system_config = DefaultConfig(backend = "utsp")
          ELSE /\ call.written = Len(call.options.bool_attributes)
               /\ call.system_config =
                     SetAttrs(DefaultConfig(backend = "utsp"), call.options.bool_attributes,
                              call.individual.bool_vector, 1)

C18_Witness ==
    /\ call.op = "create_config_from_individual" /\ call.err
    /\ Len(call.individual.bool_vector) = Len(call.options.bool_attributes)
    /\ call.written = 2
    /\ call.system_config # DefaultConfig(backend = "utsp")

\* the schema names an attribute the configuration type does not have
UnknownAttribute(options, utsp) ==
    \E name \in Range(options.bool_attributes) \cup Range(options.discrete_attributes) :
        name \notin DOMAIN DefaultConfig(utsp)

\* a discrete attribute of the schema has no list of allowed values or an
\* empty one
MissingOrEmptyList(options) ==
    \E name \in Range(options.discrete_attributes) :
        \/ name \notin DOMAIN options.members
        \/ options.members[name] = <<>>

\* C19: the construction of a schema that names an unknown attribute, or that
\* has a discrete attribute with a missing or empty list of allowed values,
\* fails.
C19_MalformedSchemaRejected ==
    (/\ call.op = "SizingOptions"
     /\ \/ UnknownAttribute(call.options, backend = "utsp")
        \/ MissingOrEmptyList(call.options))
    => call.err

\* the schema has not one probability for each boolean attribute
BadProbabilities(options) == Len(options.probabilities) # Len(options.bool_attributes)

\* C20: under a schema with another number of probabilities than of boolean
\* attributes the creation of a random individual fails before any draw and
\* before any gene, and no individual is created from the schema.
C20_BadProbabilitiesRejected ==
    (call.op \in {"create_random_individual", "create_individual_from_config"}
     /\ BadProbabilities(call.options))
    => /\ call.err
       /\ call.individual = Individual(<<>>, <<>>)
       /\ call.op = "create_random_individual" => call.draws = 0

\* the calls of the genetic operators on objects
ObjectOperators ==
    {"mutation_bool_heap", "mutation_discrete_heap", "crossover_conventional_heap",
     "unique_heap", "selection_heap", "evolution_heap", "next_generation_heap"}

\* C21: when a genetic operator returns (or raises), every object that
\* existed before the call -- the vectors of the parents, the parents, the
\* lists passed in -- is what it was before the call, and the children and
\* lists it returns are objects created by the call.
C21_OperatorsKeepInputs ==
    call.op \in ObjectOperators
    => /\ Len(call.after) >= Len(call.before)
       /\ \A ref \in 1..Len(call.before) : call.after[ref] = call.before[ref]
       /\ \A ref \in call.created : ref > Len(call.before)

C21_Witness ==
    /\ call.op = "mutation_bool_heap" /\ ~call.err
    /\ \E child \in call.created :
          /\ ValueOf(call.after, child) # ValueOf(call.before, call.inputs[1])
          /\ call.after[child].discrete_vector = call.before[call.inputs[1]].discrete_vector

\* the keys of the dictionary result_dict.json holds
Keys(dict) == {dict[i].key : i \in 1..Len(dict)}

\* C22: when the evaluations of a generation ran as concurrent jobs and all
\* succeeded, the result dictionary the controller read holds an entry for
\* every submitted configuration.
C22_NoResultLost ==
    (/\ backend = "slurm"
     /\ pc \in {"check", "crashed"}
     /\ last_invocation.transition = "STEP"
     /\ Range(Consumed.requisite) \cap failing = {})
    => Range(Consumed.requisite) \subseteq Keys(result_dict_json)

\* the answers of squeue that stand for a job that is over
TerminalObservations == {"COMPLETED", "FAILED", "CANCELLED", ""}

\* C23: the polling ends only after one pass in which every submitted job
\* was observed in a terminal state (and is in one); a pass in which a job
\* was observed queued or running, or its query failed, is followed by a
\* sleep and another pass.
C23_ReturnsAfterAllTerminal ==
    call.op = "get_results_from_requisite_hisim_configs_slurm"
    => /\ call.phase = "returned"
          => /\ Len(call.observed) = Len(call.jobs)
             /\ \A j \in 1..Len(call.jobs) :
                   /\ call.observed[j] \in TerminalObservations
                   /\ call.jobs[j] \in TerminalObservations
       /\ (\E j \in 1..Len(call.observed) : call.observed[j] \notin TerminalObservations)
          => call.phase = "sleeping"

C23_Witness ==
    /\ call.op = "get_results_from_requisite_hisim_configs_slurm"
    /\ call.phase = "returned"
    /\ call.waited
    /\ Len(call.jobs) = 2
    /\ call.observed = <<"", "FAILED">>

\* the positions of the requests sent to a provider
SentTo(provider) == {i \in 1..Len(call.sent) : call.sent[i].provider = provider}

\* C24: the request for the next building sizer iteration is sent after every
\* evaluation request of the new generation was sent, and it is not sent when
\* the sending of an evaluation request was answered with a failed or unknown
\* status.
C24_NextIterationSentLast ==
    call.op = "trigger_next_iteration"
    => /\ \A i \in SentTo("building_sizer") :
             /\ i = Len(call.hisim_requests) + 1
             /\ \A j \in 1..Len(call.hisim_requests) :
                   /\ call.sent[j].provider = "hisim"
                   /\ call.sent[j].simulation_config = call.hisim_requests[j]
       /\ (\E j \in 1..Len(call.replies) : call.replies[j] \in {"CALCULATIONFAILED", "UNKNOWN"})
          => /\ SentTo("building_sizer") = {}
             /\ call.phase = "raised"

C24_Witness ==
    /\ call.op = "trigger_next_iteration"
    /\ call.phase = "returned"
    /\ Len(call.hisim_requests) = 2
    /\ SentTo("building_sizer") = {3}

RECURSIVE Flatten(_)
\* the concatenation of a list of lists
Flatten(lists) == IF lists = <<>> THEN <<>> ELSE Head(lists) \o Flatten(Tail(lists))

\* C25: evolution walks the cursor pop from 0 while pop < n with one offset
\* sel; at a visited position, with the number o drawn there, it crosses the
\* parents at (sel+pop) mod n and (sel+pop+1) mod n, appends both children and
\* advances by 2 when o < r_cross; else mutates the parent at (sel+pop) mod n,
\* appends the child and advances by 1 when o < r_cross + r_mut; else appends
\* nothing and advances by 1.
C25_EvolutionWalk ==
    (call.op = "evolution" /\ ~call.err)
    => LET n == Len(call.parents)
           steps == call.steps
           utsp == backend = "utsp"
           PopAfter(k) == IF k < Len(steps) THEN steps[k + 1].pop ELSE call.pop
           At(index) == call.parents[index + 1]
       IN  /\ call.sel \in 0..(n - 1)
           /\ steps # <<>> /\ steps[1].pop = 0
           /\ call.pop >= n
           /\ call.children = Flatten([k \in 1..Len(steps) |-> steps[k].appended])
           /\ \A k \in 1..Len(steps) :
                 LET step == steps[k]
                     first == (call.sel + step.pop) % n
                     second == (call.sel + step.pop + 1) % n
                 IN  /\ step.pop < n
                     /\ IF step.o < call.r_cross
                        THEN /\ step.parents = <<first, second>>
                             /\ Len(step.appended) = 2
                             /\ \E c \in crossover_conventional(At(first), At(second), utsp) :
                                   ~c.err /\ step.appended = <<c.child1, c.child2>>
                             /\ PopAfter(k) = step.pop + 2
                        ELSE IF step.o < call.r_cross + call.r_mut
                        THEN /\ step.parents = <<first>>
                             /\ Len(step.appended) = 1
                             /\ \E m \in Mutation(At(first), call.mode, OptionsOf(backend), utsp) :
                                   ~m.err /\ step.appended = <<m.child>>
                             /\ PopAfter(k) = step.pop + 1
                        ELSE /\ step.parents = <<>>
                             /\ step.appended = <<>>
                             /\ PopAfter(k) = step.pop + 1

C25_Witness ==
    /\ call.op = "evolution" /\ ~call.err
    /\ Len(call.parents) = 3
    /\ call.sel = 2
    /\ Len(call.steps) = 2
    /\ Len(call.steps[1].appended) = 1
    /\ Len(call.steps[2].appended) = 2
    /\ call.steps[2].parents = <<0, 1>>
    /\ call.pop = 3

\* the individuals of the selected parents of a STEP
SelectedParents == {call.parents[i].individual : i \in 1..Len(call.parents)}

\* C26: the next generation of a STEP is unique(children ++ selected
\* parents): every selected parent is in it, every member of it is a child
\* or a selected parent, and no two members are equal.
C26_NextGeneration ==
    (call.op = "building_sizer_iteration" /\ ~call.err)
    => LET next_generation == call.new_individuals
       IN  /\ SelectedParents \subseteq Range(next_generation)
           /\ Range(next_generation) \subseteq Range(call.children) \cup SelectedParents
           /\ \A i, j \in 1..Len(next_generation) :
                 i # j => next_generation[i] # next_generation[j]

C26_Witness ==
    /\ call.op = "building_sizer_iteration" /\ ~call.err
    /\ Len(call.parents) = 2
    /\ Len(call.children) = 2
    /\ call.children[1] \in SelectedParents
    /\ call.children[2] \notin SelectedParents
    /\ Len(call.new_individuals) = 3

\* the indices of the first occurrences in a list
FirstIndices(list) == {j \in 1..Len(list) : \A i \in 1..(j - 1) : list[i] # list[j]}

\* the k-th smallest element of a set of numbers
Nth(indices, k) == CHOOSE j \in indices : Cardinality({i \in indices : i <= j}) = k

\* C27: unique returns the first occurrences of its input in their original
\* order, an element being removed iff an earlier element equals it; so the
\* result has no two equal elements and an equal element for every input
\* element.
C27_UniqueFirstOccurrences ==
    call.op = "unique"
    => LET first == FirstIndices(call.individuals)
       IN  /\ Len(call.result) = Cardinality(first)
           /\ \A k \in 1..Len(call.result) : call.result[k] = call.individuals[Nth(first, k)]
           /\ \A i, j \in 1..Len(call.result) : i # j => call.result[i] # call.result[j]
           /\ Range(call.individuals) = Range(call.result)

C27_Witness ==
    /\ call.op = "unique"
    /\ Len(call.individuals) = 3
    /\ call.individuals[1] = call.individuals[3]
    /\ call.individuals[1] # call.individuals[2]
    /\ call.result = <<call.individuals[1], call.individuals[2]>>

\* the children of the parents of a call for a cut
CutAt(cut) ==
    LET p1 == call.parent1
        p2 == call.parent2
        exchanged == cut < Len(p1.discrete_vector)
    IN  /\ call.child1.bool_vector = Take(p1.bool_vector, cut) \o Drop(p2.bool_vector, cut)
        /\ call.child2.bool_vector = Take(p2.bool_vector, cut) \o Drop(p1.bool_vector, cut)
        /\ call.child1.discrete_vector =
              IF exchanged
              THEN Take(p1.discrete_vector, cut) \o Drop(p2.discrete_vector, cut)
              ELSE p1.discrete_vector
        /\ call.child2.discrete_vector =
              IF exchanged
              THEN Take(p2.discrete_vector, cut) \o Drop(p1.discrete_vector, cut)
              ELSE p2.discrete_vector

\* C28 as stated: in the mixed layout, for all parents with a boolean vector
\* of length L >= 2, crossover returns the children of a cut in [1, L-1].
C28_CrossoverCuts ==
    (/\ call.op = "crossover_conventional"
     /\ backend = "utsp"
     /\ Len(call.parent1.bool_vector) >= 2)
    => /\ ~call.err
       /\ \E cut \in 1..(Len(call.parent1.bool_vector) - 1) : CutAt(cut)

\* C28 amended: in the mixed layout, for all parents with a boolean vector of
\* length L >= 2 and a discrete vector not longer than L, crossover returns
\* the children of a cut in [1, L-1]; with a longer discrete vector it raises.
C28_CrossoverCutsWithinBools ==
    (/\ call.op = "crossover_conventional"
     /\ backend = "utsp"
     /\ Len(call.parent1.bool_vector) >= 2)
    => IF Len(call.parent1.discrete_vector) <= Len(call.parent1.bool_vector)
       THEN /\ ~call.err
            /\ \E cut \in 1..(Len(call.parent1.bool_vector) - 1) : CutAt(cut)
       ELSE call.err

C28_Witness ==
    /\ call.op = "crossover_conventional" /\ backend = "utsp" /\ ~call.err
    /\ Len(call.parent1.bool_vector) = 3
    /\ Len(call.parent1.discrete_vector) = 2
    /\ call.parent1.bool_vector[3] # call.parent2.bool_vector[3]
    /\ call.parent1.discrete_vector[2] # call.parent2.discrete_vector[2]
    /\ CutAt(2) /\ ~CutAt(1)

\* the children mutation_discrete can make of a selected parent
MutatedParents ==
    UNION {{m.child : m \in {x \in mutation_discrete(parent, OptionsOf(backend)) : ~x.err}} :
           parent \in SelectedParents}

IterationsInMode(mode) == {k \in 1..Len(call.modes) : call.modes[k] = mode}

\* C30: for boolean_iterations b >= 1 and discrete_iterations d >= 1, over
\* any b + d consecutive iteration numbers decide_on_mode returns "bool" for
\* exactly b of them and "discrete" for exactly d of them.
C30_ModeSplit ==
    call.op = "decide_on_mode"
    => /\ Cardinality(IterationsInMode("bool")) = call.boolean_iterations
       /\ Cardinality(IterationsInMode("discrete")) = call.discrete_iterations

\* the controller invocations so far that were a STEP: the requests handed
\* to the controller with pending handles, each rating one generation
Steps == {i \in 1..Len(handed) : handed[i].requisite # <<>>}

\* C31: a run started from an initial request with remaining_iterations =
\* N >= 1 in which every evaluation succeeds performs exactly N STEP
\* iterations before the finished result is returned: no invocation fails,
\* the run never holds more than N STEPs, and a finished result is there
\* exactly when the N-th STEP has returned.
C31_StepsEqualBudget ==
    initial_building_sizer_request.remaining_iterations >= 1
    => /\ pc \notin {"crashed", "loop_detected"}
       /\ Cardinality(Steps) <= initial_building_sizer_request.remaining_iterations
       /\ (status_json # <<>> /\ Result.finished)
          <=> Cardinality(Steps) = initial_building_sizer_request.remaining_iterations

C31_Witness ==
    /\ pc = "done"
    /\ initial_building_sizer_request.remaining_iterations = MaxIterations
    /\ initial_building_sizer_request.population_size > 1
    /\ Cardinality(Steps) = MaxIterations

\* C32: in a run in which every evaluation succeeds only the first
\* controller invocation is a BOOTSTRAP: an invocation is a BOOTSTRAP exactly
\* when its request has no pending handles, the first request has none, and
\* every later request, like every subsequent request returned, has at least
\* one.
C32_BootstrapOnlyFirst ==
    /\ \A i \in 1..Len(handed) : (handed[i].requisite = <<>>) <=> (i = 1)
    /\ handed # <<>>
       => (last_invocation.transition = "BOOTSTRAP"
              <=> handed[Len(handed)].requisite = <<>>)
    /\ (status_json # <<>> /\ Result.subsequent_building_sizer_request # <<>>)
       => Result.subsequent_building_sizer_request[1].requisite # <<>>
    /\ pc # "crashed"

C32_Witness ==
    /\ Returned /\ Len(handed) = 3
    /\ last_invocation.transition = "STEP"
    /\ handed[1].requisite = <<>>
    /\ Len(handed[2].requisite) > 1
    /\ Len(handed[3].requisite) > 1

\* C33: every subsequent request a STEP with population size k >= 1 and at
\* least one rated individual returns carries at least 1 and at most
\* 2 * k + 1 pending handles: at most k selected parents and at most k + 1
\* children, one handle for each individual of the next generation.
C33_HandlesBounded ==
    (/\ call.op = "building_sizer_iteration" /\ ~call.err
     /\ call.next # <<>>
     /\ call.request.population_size >= 1)
    => LET k == call.request.population_size
       IN  /\ Len(call.parents) >= 1 /\ Len(call.parents) <= k
           /\ Len(call.children) <= k + 1
           /\ Len(call.next[1].requisite) = Len(call.new_individuals)
           /\ Len(call.next[1].requisite) >= 1
           /\ Len(call.next[1].requisite) <= 2 * k + 1

C33_Witness ==
    /\ call.op = "building_sizer_iteration" /\ ~call.err
    /\ call.next # <<>>
    /\ call.request.population_size = 2
    /\ Len(call.parents) = 2
    /\ Len(call.children) = 3
    /\ Len(call.next[1].requisite) > 2

\* C34: for every non-empty parent list of length n and all probabilities
\* evolution ends after at most n turns of its loop, each at a cursor
\* position of 0..n-1 beyond the one before, and returns at most n + 1
\* children; n + 1 only when the last turn is at position n - 1 and is a
\* crossover.
C34_EvolutionBounded ==
    (call.op = "evolution" /\ Len(call.parents) >= 1)
    => LET n == Len(call.parents)
           steps == call.steps
       IN  /\ Len(steps) <= n
           /\ \A k \in 1..Len(steps) : steps[k].pop \in 0..(n - 1)
           /\ \A k \in 1..(Len(steps) - 1) : steps[k].pop < steps[k + 1].pop
           /\ ~call.err => call.pop \in {n, n + 1}
           /\ Len(call.children) <= n + 1
           /\ Len(call.children) = n + 1
              => /\ steps[Len(steps)].pop = n - 1
                 /\ steps[Len(steps)].o < call.r_cross
                 /\ Len(steps[Len(steps)].appended) = 2

C34_Witness ==
    /\ call.op = "evolution" /\ ~call.err
    /\ Len(call.parents) = 3
    /\ Len(call.steps) = 3
    /\ Len(call.children) = 4
    /\ call.r_cross < 100
    /\ call.pop = 4

\* an individual conforms to the schema: its vectors are as long as the
\* lists of attributes and every discrete gene is one of the allowed values
\* of the attribute at its position
Conforms(individual, options) ==
    /\ Len(individual.bool_vector) = Len(options.bool_attributes)
    /\ \A i \in 1..Len(individual.bool_vector) : individual.bool_vector[i] \in BOOLEAN
    /\ Len(individual.discrete_vector) = Len(options.discrete_attributes)
    /\ \A i \in 1..Len(individual.discrete_vector) :
          individual.discrete_vector[i]
              \in Range(AllowedValues(options, options.discrete_attributes[i]))

\* the individuals of the configurations the last invocation submitted
SubmittedIndividuals ==
    [i \in 1..Len(last_invocation.submitted) |->
        create_individual_from_config(last_invocation.submitted[i],
                                      initial_building_sizer_request.options)]

RatingsOf(request) == {oracle[handle] : handle \in Range(request.requisite)}

RatedRatings ==
    {last_invocation.rated_individuals[i].rating :
        i \in 1..Len(last_invocation.rated_individuals)}

\* the best rating of a set of ratings: selection keeps the highest
Best(ratings) == CHOOSE r \in ratings : \A other \in ratings : other <= r

\* C36: with an oracle that rates equal configurations equal, the best
\* rating among the individuals rated in a STEP is never lower than the best
\* rating among the individuals rated in the STEP before it: the ratings of
\* a STEP are those of the pending handles of its request, and the best of
\* them only grows from one STEP of the run to the next.
C36_BestRatingNeverFalls ==
    /\ (Returned /\ last_invocation.transition = "STEP")
       => RatedRatings = RatingsOf(handed[Len(handed)])
    /\ \A i \in 3..Len(handed) :
          \A before \in RatingsOf(handed[i - 1]) :
             \E after \in RatingsOf(handed[i]) : after >= before

C36_Witness ==
    /\ Returned /\ last_invocation.transition = "STEP"
    /\ Len(handed) = 3
    /\ Len(handed[2].requisite) > 1
    /\ Best(RatingsOf(handed[3])) > Best(RatingsOf(handed[2]))
    /\ \E r \in RatedRatings : r < Best(RatingsOf(handed[2]))

\* the positions of the parent list that are operands of a turn of evolution
Operands(step) == Range(step.parents)

\* C37: within one call of evolution on n >= 2 parents no position of the
\* parent list is an operand of more than one crossover or mutation.
C37_ParentUsedOnce ==
    (call.op = "evolution" /\ Len(call.parents) >= 2)
    => \A j, k \in 1..Len(call.steps) :
          j < k => Operands(call.steps[j]) \cap Operands(call.steps[k]) = {}

====
